---- MODULE Spec2Model ----
(***************************************************************************)
(* Attendance derivation engine of masala-house-payroll.                   *)
(*                                                                         *)
(* The in-memory engine (AttendanceService) turns the punch events of one  *)
(* employee into a gap-filled calendar of daily records and a summary.     *)
(* Instants are seconds since 1970-01-01T00:00:00Z (the code's getTime()   *)
(* in whole seconds: the punch file carries no sub-second digits).  Date   *)
(* strings 'YYYY-MM-DD' are the triples <<y, m, d>>, time strings          *)
(* 'HH:MM:SS' the triples <<h, m, s>> and 'HH:MM' the pairs <<h, m>>.      *)
(* averageHoursPerDay is kept in hundredths of an hour (the code rounds it *)
(* to two decimals).                                                       *)
(***************************************************************************)
EXTENDS Integers, Sequences, FiniteSets, TLC

VARIABLES tz, settings, records, pc, summary,
          file, pos, rawRecords, userFile, userMapping, outcome, selection,
          employees, punchTable, dailyTable, lastRequest, txs

\* State of the file parsers (DatFileParser, UserDataParser) inside processFile.
parserVars == <<file, pos, rawRecords, userFile, userMapping, outcome, selection>>

\* The persisted store of V2AttendanceService, the outcome of its last
\* request and the transactions in flight.
storeVars == <<employees, punchTable, dailyTable, lastRequest, txs>>

vars == <<tz, settings, records, pc, summary, parserVars, storeVars>>

----------------------------------------------------------------------------
(* Bounds *)

\* Largest number of punch events handed to the engine for the employee.
MaxPunches == 4

\* Largest number of fixed-size records in a directory buffer.
MaxRecords == 2

\* Largest number of lines in a punch file that is parsed line by line.
MaxLines == 2

----------------------------------------------------------------------------
(* Calendar arithmetic of the JavaScript Date object (proleptic Gregorian) *)

SecPerDay == 86400

\* Offset of Asia/Kolkata from UTC, in seconds (+05:30).
ISTOffsetSec == 19800

\* Day number (days since 1970-01-01) of the civil date y-m-d.
days_from_civil(y, m, d) ==
  LET yy  == IF m <= 2 THEN y - 1 ELSE y
      era == yy \div 400
      yoe == yy - era * 400
      mp  == IF m > 2 THEN m - 3 ELSE m + 9
      doy == (153 * mp + 2) \div 5 + d - 1
      doe == yoe * 365 + yoe \div 4 - yoe \div 100 + doy
  IN  era * 146097 + doe - 719468

\* Civil date <<y, m, d>> of a day number, computed in steps: the 400-year
\* era, the day of the era, the year of the era, the day of the (March-based)
\* year and the month.
MonthOfMp(mp) == IF mp < 10 THEN mp + 3 ELSE mp - 9

CivilOfMp(era, yoe, doy, mp) ==
  <<yoe + era * 400 + (IF MonthOfMp(mp) <= 2 THEN 1 ELSE 0),
    MonthOfMp(mp),
    doy - (153 * mp + 2) \div 5 + 1>>

CivilOfDoy(era, yoe, doy) == CivilOfMp(era, yoe, doy, (5 * doy + 2) \div 153)

CivilOfYoe(era, doe, yoe) ==
  CivilOfDoy(era, yoe, doe - (365 * yoe + yoe \div 4 - yoe \div 100))

CivilOfDoe(era, doe) ==
  CivilOfYoe(era, doe,
             (doe - doe \div 1460 + doe \div 36524 - doe \div 146096) \div 365)

CivilOfShifted(zz) == CivilOfDoe(zz \div 146097, zz % 146097)

civil_from_days(z) == CivilOfShifted(z + 719468)

\* new Date(timestampStr + '+05:30'): the wall-clock digits are IST.
parseTimestampIST(y, m, d, h, mi, s) ==
  days_from_civil(y, m, d) * SecPerDay + h * 3600 + mi * 60 + s - ISTOffsetSec

\* new Date(year, monthIndex, day) in the process-local zone; monthIndex is
\* 0-based and may be 12, day may be 0 (the Date constructor normalises).
NewLocalDate(year, monthIndex, day, tzv) ==
  LET y == year + monthIndex \div 12
      m == (monthIndex % 12) + 1
  IN  (days_from_civil(y, m, 1) + day - 1) * SecPerDay - tzv * 60

\* new Date(d + 'T00:00:00'): a date-time string without offset is local time.
ParseLocalMidnight(date, tzv) ==
  days_from_civil(date[1], date[2], date[3]) * SecPerDay - tzv * 60

\* <<getFullYear(), getMonth()>> of an instant in the process-local zone
\* (getMonth is 0-based).
LocalYearMonth(t, tzv) ==
  LET c == civil_from_days((t + tzv * 60) \div SecPerDay)
  IN  <<c[1], c[2] - 1>>

----------------------------------------------------------------------------
(* packages/shared: formatDate, formatTime, timeToMinutes, labels          *)

\* formatDate: the civil date of the instant in Asia/Kolkata.
formatDate(t) == civil_from_days((t + ISTOffsetSec) \div SecPerDay)

\* formatTime: the wall-clock time of the instant in Asia/Kolkata.
formatTime(t) ==
  LET sod == (t + ISTOffsetSec) % SecPerDay
  IN  <<sod \div 3600, (sod % 3600) \div 60, sod % 60>>

\* timeToMinutes: hours * 60 + minutes of the first two ':' fields.
timeToMinutes(time) == time[1] * 60 + time[2]

\* getVerificationLabel: labels[type] || `Type ${type}`; a label is the
\* one-element tuple of its text, or <<"Type", n>> for an unknown code.
getVerificationLabel(type) ==
  CASE type = 0  -> <<"Password">>
    [] type = 1  -> <<"Fingerprint">>
    [] type = 2  -> <<"Card">>
    [] type = 3  -> <<"Password + Fingerprint">>
    [] type = 4  -> <<"Card + Fingerprint">>
    [] type = 15 -> <<"Face">>
    [] OTHER     -> <<"Type", type>>

DEFAULT_SETTINGS ==
  [workStartTime |-> <<9, 30>>, workEndTime |-> <<18, 30>>,
   lateThresholdMinutes |-> 15, earlyOutThresholdMinutes |-> 15]

\* null for firstIn / lastOut (time strings are non-empty tuples).
Null == <<>>

----------------------------------------------------------------------------
(* AttendanceService: the in-memory engine                                 *)

userId == 5

\* [...records].sort((a, b) => a.timestamp - b.timestamp): Array.prototype.sort
\* is stable, so records with equal instants keep their input order.
RECURSIVE InsertByTime(_, _)
InsertByTime(sorted, r) ==
  IF sorted = <<>> THEN <<r>>
  ELSE IF sorted[Len(sorted)].timestamp <= r.timestamp
       THEN Append(sorted, r)
       ELSE Append(InsertByTime(SubSeq(sorted, 1, Len(sorted) - 1), r),
                   sorted[Len(sorted)])

\* Variant: the day's records are paired in file order, without sorting.
SortByTime_FileOrder(recs) == recs

RECURSIVE SortByTime(_)
SortByTime(recs) ==
  IF recs = <<>> THEN <<>>
  ELSE InsertByTime(SortByTime(SubSeq(recs, 1, Len(recs) - 1)), recs[Len(recs)])

\* Variant: every punch, IN or OUT, is paired only if another punch follows.
PunchView_NeedsFollower(sortedRecords, i) ==
  LET index       == i - 1
      punchCount  == Len(sortedRecords)
      isEvenIndex == index % 2 = 0
  IN  [time             |-> formatTime(sortedRecords[i].timestamp),
       type             |-> IF isEvenIndex THEN "IN" ELSE "OUT",
       verificationType |-> getVerificationLabel(sortedRecords[i].verificationType),
       isPaired         |-> index + 1 < punchCount]

\* The punch view-objects of a sorted day (the map callback).
PunchView(sortedRecords, i) ==
  LET index       == i - 1
      punchCount  == Len(sortedRecords)
      isEvenIndex == index % 2 = 0
  IN  [time             |-> formatTime(sortedRecords[i].timestamp),
       type             |-> IF isEvenIndex THEN "IN" ELSE "OUT",
       verificationType |-> getVerificationLabel(sortedRecords[i].verificationType),
       isPaired         |-> IF isEvenIndex THEN index + 1 < punchCount ELSE TRUE]

Max(a, b) == IF a >= b THEN a ELSE b

\* Variant: the loop steps by one, so (1,2), (3,4), ... are summed as well.
RECURSIVE PairLoop_StepOne(_, _)
PairLoop_StepOne(sortedRecords, i) ==
  IF ~(i < Len(sortedRecords) - 1) THEN 0
  ELSE LET inMinutes  == timeToMinutes(formatTime(sortedRecords[i + 1].timestamp))
           outMinutes == timeToMinutes(formatTime(sortedRecords[i + 2].timestamp))
       IN  Max(0, outMinutes - inMinutes) + PairLoop_StepOne(sortedRecords, i + 1)

\* for (let i = 0; i < sortedRecords.length - 1; i += 2) totalMinutes += ...
\* (i is the 0-based loop index).
RECURSIVE PairLoop(_, _)
PairLoop(sortedRecords, i) ==
  IF ~(i < Len(sortedRecords) - 1) THEN 0
  ELSE LET inMinutes  == timeToMinutes(formatTime(sortedRecords[i + 1].timestamp))
           outMinutes == timeToMinutes(formatTime(sortedRecords[i + 2].timestamp))
       IN  Max(0, outMinutes - inMinutes) + PairLoop(sortedRecords, i + 2)

\* Variant: the parity test is inverted.
StatusOfCount_OddPresent(punchCount) ==
  IF punchCount = 0 THEN "ABSENT"
  ELSE IF punchCount % 2 = 1 THEN "PRESENT"
  ELSE "INCOMPLETE"

StatusOfCount(punchCount) ==
  IF punchCount = 0 THEN "ABSENT"
  ELSE IF punchCount % 2 = 0 THEN "PRESENT"
  ELSE "INCOMPLETE"

\* Variant: an arrival exactly at the threshold minute counts as late.
IsLate_Inclusive(status, firstIn, st) ==
  LET workStartMinutes == timeToMinutes(st.workStartTime)
      firstInMinutes   == IF firstIn # Null THEN timeToMinutes(firstIn) ELSE 0
  IN  /\ status = "PRESENT"
      /\ firstIn # Null
      /\ firstInMinutes >= workStartMinutes + st.lateThresholdMinutes

\* Check if late (only for complete days).
IsLate(status, firstIn, st) ==
  LET workStartMinutes == timeToMinutes(st.workStartTime)
      firstInMinutes   == IF firstIn # Null THEN timeToMinutes(firstIn) ELSE 0
  IN  /\ status = "PRESENT"
      /\ firstIn # Null
      /\ firstInMinutes > workStartMinutes + st.lateThresholdMinutes

\* Variant: the early-out test ignores the status of the day.
IsEarlyOut_AnyStatus(status, lastOut, st) ==
  LET workEndMinutes == timeToMinutes(st.workEndTime)
      lastOutMinutes == IF lastOut # Null THEN timeToMinutes(lastOut) ELSE 0
  IN  /\ lastOut # Null
      /\ lastOutMinutes < workEndMinutes - st.earlyOutThresholdMinutes

\* Check if early out (only for complete days).
IsEarlyOut(status, lastOut, st) ==
  LET workEndMinutes == timeToMinutes(st.workEndTime)
      lastOutMinutes == IF lastOut # Null THEN timeToMinutes(lastOut) ELSE 0
  IN  /\ status = "PRESENT"
      /\ lastOut # Null
      /\ lastOutMinutes < workEndMinutes - st.earlyOutThresholdMinutes

\* Variant: the difference is not clamped at 0.
Overtime_NoClamp(status, totalMinutes, st) ==
  LET workStartMinutes == timeToMinutes(st.workStartTime)
      workEndMinutes   == timeToMinutes(st.workEndTime)
      expectedMinutes  == workEndMinutes - workStartMinutes
  IN  IF status = "PRESENT" THEN totalMinutes - expectedMinutes ELSE 0

\* Calculate overtime (only for complete days).
Overtime(status, totalMinutes, st) ==
  LET workStartMinutes == timeToMinutes(st.workStartTime)
      workEndMinutes   == timeToMinutes(st.workEndTime)
      expectedMinutes  == workEndMinutes - workStartMinutes
  IN  IF status = "PRESENT" THEN Max(0, totalMinutes - expectedMinutes) ELSE 0

\* The returned DailyAttendance object.
DailyRecord(uid, date, punches, firstIn, lastOut, totalMinutes, status, st) ==
  [userId       |-> uid,
   date         |-> date,
   firstIn      |-> firstIn,
   lastOut      |-> lastOut,
   totalHours   |-> totalMinutes \div 60,
   totalMinutes |-> totalMinutes % 60,
   punches      |-> punches,
   status       |-> status,
   isLate       |-> IsLate(status, firstIn, st),
   isEarlyOut   |-> IsEarlyOut(status, lastOut, st),
   overtime     |-> Overtime(status, totalMinutes, st)]

\* Get first in and last out.
FirstIn(punches) == IF Len(punches) > 0 THEN punches[1].time ELSE Null

\* Variant: the last punch is the last out of a single-punch day too.
LastOut_Always(punches) == IF Len(punches) > 0 THEN punches[Len(punches)].time ELSE Null

LastOut(punches) == IF Len(punches) > 1 THEN punches[Len(punches)].time ELSE Null

Punches(sortedRecords) ==
  [i \in 1..Len(sortedRecords) |-> PunchView(sortedRecords, i)]

DailyOfPunches(uid, date, sortedRecords, punches, st) ==
  DailyRecord(uid, date, punches, FirstIn(punches), LastOut(punches),
              PairLoop(sortedRecords, 0), StatusOfCount(Len(sortedRecords)), st)

DailyOfSorted(uid, date, sortedRecords, st) ==
  DailyOfPunches(uid, date, sortedRecords, Punches(sortedRecords), st)

calculateDailyAttendance(date, recs, st) ==
  DailyOfSorted(recs[1].userId, date, SortByTime(recs), st)

\* The record synthesised for a date without punches.
AbsentRecord(date) ==
  [userId |-> userId, date |-> date, firstIn |-> Null, lastOut |-> Null,
   totalHours |-> 0, totalMinutes |-> 0, punches |-> <<>>,
   status |-> "ABSENT", isLate |-> FALSE, isEarlyOut |-> FALSE, overtime |-> 0]

\* groupByDate: the keys of the map and the records under a key, in input order.
DateKeys(recs) == {formatDate(recs[i].timestamp) : i \in 1..Len(recs)}

groupByDate(recs, date) ==
  SelectSeq(recs, LAMBDA r : formatDate(r.timestamp) = date)

SetMin(S) == CHOOSE x \in S : \A y \in S : x <= y
SetMax(S) == CHOOSE x \in S : \A y \in S : x >= y

\* while (currentDate <= monthEnd) { push(formatDate(currentDate)); setDate(+1) }
\* The k-th pass pushes the date of currentDate + (k - 1) days; the passes
\* are those whose instant is not after monthEnd.
AllDatesLoop(currentDate, monthEnd) ==
  IF ~(currentDate <= monthEnd) THEN <<>>
  ELSE [k \in 1..(((monthEnd - currentDate) \div SecPerDay) + 1) |->
          formatDate(currentDate + (k - 1) * SecPerDay)]

\* monthStart .. monthEnd from the least and greatest local-midnight instants.
AllDatesOfYM(minYM, maxYM, tzv) ==
  AllDatesLoop(NewLocalDate(minYM[1], minYM[2], 1, tzv),
               NewLocalDate(maxYM[1], maxYM[2] + 1, 0, tzv))

AllDatesOf(dates, tzv) ==
  AllDatesOfYM(LocalYearMonth(SetMin(dates), tzv),
               LocalYearMonth(SetMax(dates), tzv), tzv)

AllDates(recs, tzv) ==
  AllDatesOf({ParseLocalMidnight(d, tzv) : d \in DateKeys(recs)}, tzv)

DailyOfDay(date, dayRecords, st) ==
  IF Len(dayRecords) > 0
  THEN calculateDailyAttendance(date, dayRecords, st)
  ELSE AbsentRecord(date)

DailyFor(recs, date, st) == DailyOfDay(date, groupByDate(recs, date), st)

\* Statistics accumulated by the loop over allDates.
RECURSIVE SumSeq(_)
SumSeq(s) ==
  IF s = <<>> THEN 0
  ELSE IF Len(s) = 1 THEN s[1]
  ELSE SumSeq(SubSeq(s, 1, Len(s) \div 2))
         + SumSeq(SubSeq(s, (Len(s) \div 2) + 1, Len(s)))

\* Variant: the paired minutes of INCOMPLETE days are accumulated too.
StatTotalWorkingMinutes_AnyStatus(d) == d.totalHours * 60 + d.totalMinutes

StatTotalWorkingMinutes(d) ==
  IF d.status = "PRESENT" THEN d.totalHours * 60 + d.totalMinutes ELSE 0
StatLate(d) == IF d.status = "PRESENT" /\ d.isLate THEN 1 ELSE 0
StatEarlyOut(d) == IF d.status = "PRESENT" /\ d.isEarlyOut THEN 1 ELSE 0
StatOvertime(d) == IF d.status = "PRESENT" /\ d.overtime > 0 THEN d.overtime ELSE 0
StatPresent(d) == IF d.status = "PRESENT" THEN 1 ELSE 0
StatAbsent(d) == IF d.status = "ABSENT" THEN 1 ELSE 0
StatIncomplete(d) == IF d.status = "INCOMPLETE" THEN 1 ELSE 0

\* Math.round(x * 100) for x = num / den >= 0: round half up, in hundredths.
RoundHundredths(num, den) == (200 * num + den) \div (2 * den)

\* Variant: the average is taken without dividing by the present days.
AverageHoursPerDay100_NoDivide(totalWorkingMinutes, presentDays) ==
  IF presentDays > 0
  THEN RoundHundredths(totalWorkingMinutes, 60)
  ELSE 0

\* presentDays > 0 ? totalWorkingMinutes / 60 / presentDays : 0, then
\* Math.round(averageHoursPerDay * 100) / 100 (kept as hundredths).
AverageHoursPerDay100(totalWorkingMinutes, presentDays) ==
  IF presentDays > 0
  THEN RoundHundredths(totalWorkingMinutes, 60 * presentDays)
  ELSE 0

\* The returned UserAttendanceSummary object.
SummaryRecord(dailyRecords, n, totalWorkingMinutes, presentDays) ==
  [userId              |-> userId,
   totalDays           |-> n,
   presentDays         |-> presentDays,
   absentDays          |-> SumSeq([i \in 1..n |-> StatAbsent(dailyRecords[i])]),
   incompleteDays      |-> SumSeq([i \in 1..n |-> StatIncomplete(dailyRecords[i])]),
   totalWorkingHours   |-> totalWorkingMinutes \div 60,
   totalWorkingMinutes |-> totalWorkingMinutes % 60,
   averageHoursPerDay  |-> AverageHoursPerDay100(totalWorkingMinutes, presentDays),
   lateDays            |-> SumSeq([i \in 1..n |-> StatLate(dailyRecords[i])]),
   earlyOutDays        |-> SumSeq([i \in 1..n |-> StatEarlyOut(dailyRecords[i])]),
   overtimeMinutes     |-> SumSeq([i \in 1..n |-> StatOvertime(dailyRecords[i])]),
   dailyRecords        |-> dailyRecords]

SummaryOf(dailyRecords) ==
  SummaryRecord(dailyRecords, Len(dailyRecords),
                SumSeq([i \in 1..Len(dailyRecords) |->
                          StatTotalWorkingMinutes(dailyRecords[i])]),
                SumSeq([i \in 1..Len(dailyRecords) |-> StatPresent(dailyRecords[i])]))

DailyRecords(recs, allDates, st) ==
  [i \in 1..Len(allDates) |-> DailyFor(recs, allDates[i], st)]

calculateUserAttendance(recs, st, tzv) ==
  SummaryOf(DailyRecords(recs, AllDates(recs, tzv), st))

----------------------------------------------------------------------------
(* V2AttendanceService.assignPunchTypes and the report query's flags       *)

\* punches.sort(by punch_time) then punch_type / is_paired per position.
AssignSorted(sorted, isEven) ==
  [k \in 1..Len(sorted) |->
     [timestamp  |-> sorted[k].timestamp,
      punch_type |-> IF (k - 1) % 2 = 0 THEN "IN" ELSE "OUT",
      is_paired  |-> isEven \/ (k - 1) < Len(sorted) - 1]]

AssignOfSorted(sorted) == AssignSorted(sorted, Len(sorted) % 2 = 0)

assignPunchTypes(punches) == AssignOfSorted(SortByTime(punches))

\* EXTRACT(HOUR FROM t::time) * 60 + EXTRACT(MINUTE FROM t::time)
SqlMinuteOfDay(t) == t[1] * 60 + t[2]

\* get-full-report.sql: is_late ($3 work_start_minutes, $5 late threshold)
SqlIsLate(status, first_in, p3, p5) ==
  IF status = "PRESENT" /\ first_in # Null /\ SqlMinuteOfDay(first_in) > p3 + p5
  THEN TRUE ELSE FALSE

\* get-full-report.sql: is_early_out ($4 work_end_minutes, $6 early threshold)
SqlIsEarlyOut(status, last_out, p4, p6) ==
  IF status = "PRESENT" /\ last_out # Null /\ SqlMinuteOfDay(last_out) < p4 - p6
  THEN TRUE ELSE FALSE

\* get-full-report.sql: overtime
SqlOvertime(status, total_minutes, p3, p4) ==
  IF status = "PRESENT" THEN Max(0, total_minutes - (p4 - p3)) ELSE 0

----------------------------------------------------------------------------
(* processFile for one employee: inputs, state and steps                   *)

\* Process-local UTC offsets (minutes) the service may run under:
\* UTC (the container default), Kolkata, Tokyo.
TzOffsets == {0, 330, 540}

SettingsFields ==
  {"workStartTime", "workEndTime", "lateThresholdMinutes", "earlyOutThresholdMinutes"}

\* Settings DTOs a caller may send: nothing, or a full override whose
\* thresholds are 0.
SettingsDtos ==
  { <<>>,
    [workStartTime |-> <<9, 0>>, workEndTime |-> <<19, 30>>,
     lateThresholdMinutes |-> 0, earlyOutThresholdMinutes |-> 0] }

\* { ...DEFAULT_SETTINGS, ...settingsDto }
MergeSettings(dto) ==
  [f \in SettingsFields |-> IF f \in DOMAIN dto THEN dto[f] ELSE DEFAULT_SETTINGS[f]]

RawRecord(y, m, d, h, mi, s, vt) ==
  [userId |-> userId, timestamp |-> parseTimestampIST(y, m, d, h, mi, s),
   verificationType |-> vt]

\* Punch lines of the employee that the file may contain.
PunchLines ==
  { RawRecord(2025, 12, 31,  9,  0,  0, 1),
    RawRecord(2025, 12, 31,  9,  0,  0, 15),
    RawRecord(2025, 12, 31, 18, 14, 30, 1),
    RawRecord(2025, 12, 31, 19, 30,  0, 2),
    RawRecord(2026,  2, 28,  9, 45, 59, 1) }

NoSummary == <<>>

\* No directory file was supplied (userFileBuffer is undefined).
NoFile == <<-1>>

\* userMapping is undefined.
NoMapping == <<>>

\* No request has reached the store.
NoRequest == [op |-> "none", ok |-> TRUE, arg |-> <<>>, inserted |-> 0, skipped |-> 0]

\* The requests of two HTTP clients, each in its own transaction.
Clients == {1, 2}

\* No transaction: nothing inserted, removed, read or written.
TxNone ==
  [phase |-> "idle", op |-> "none", date |-> <<>>, ins |-> {}, del |-> {},
   day |-> {}, written |-> {}, existing |-> FALSE, values |-> <<>>]

\* The two clients of the store have no transaction open.
NoTxs == [c \in Clients |-> TxNone]

\* The store is empty and stays so.
StoreIdle ==
  /\ employees = {}
  /\ punchTable = {}
  /\ dailyTable = <<>>
  /\ lastRequest = NoRequest
  /\ txs = NoTxs

\* No line has reached the reconstruction of its timestamp.
NoSelection == <<>>

\* The parsers have nothing to do: the records come from PushRecord.
ParserIdle ==
  /\ file = <<>>
  /\ pos = 0
  /\ rawRecords = <<>>
  /\ userFile = NoFile
  /\ userMapping = NoMapping
  /\ outcome = "idle"
  /\ selection = NoSelection

Init ==
  /\ tz \in TzOffsets
  /\ settings \in {MergeSettings(dto) : dto \in SettingsDtos}
  /\ records = <<>>
  /\ pc = "parse"
  /\ summary = NoSummary
  /\ ParserIdle
  /\ StoreIdle

\* DatFileParser.parse pushes the next record of the employee; groupByUser
\* keeps the file order.
PushRecord(r) ==
  /\ pc = "parse"
  /\ Len(records) < MaxPunches
  /\ records' = Append(records, r)
  /\ UNCHANGED <<tz, settings, pc, summary, parserVars, storeVars>>

\* processFile on a file without a valid record throws.
ProcessFileNoRecords ==
  /\ pc = "parse"
  /\ Len(records) = 0
  /\ pc' = "error"
  /\ UNCHANGED <<tz, settings, records, summary, parserVars, storeVars>>

\* processFile computes the employee's summary.
ProcessFile ==
  /\ pc = "parse"
  /\ Len(records) # 0
  /\ summary' = calculateUserAttendance(records, settings, tz)
  /\ pc' = "done"
  /\ UNCHANGED <<tz, settings, records, parserVars, storeVars>>

Next ==
  \/ \E r \in PunchLines : PushRecord(r)
  \/ ProcessFileNoRecords
  \/ ProcessFile

Spec == Init /\ [][Next]_vars

TypeOK ==
  /\ tz \in TzOffsets
  /\ pc \in {"parse", "done", "error"}
  /\ Len(records) <= MaxPunches
  /\ pc = "done" => summary.totalDays = Len(summary.dailyRecords)

----------------------------------------------------------------------------
(* Helpers of the properties                                               *)

Done == pc = "done"

Daily == summary.dailyRecords

\* Number of input punches whose IST civil date is date.
PunchCountOn(date) ==
  Cardinality({i \in 1..Len(records) : formatDate(records[i].timestamp) = date})

\* Day number of a date string.
DayNumberOf(date) == days_from_civil(date[1], date[2], date[3])

\* The calendar the completeness property asks for: every date from the first
\* day of the month of the earliest punch's IST date to the last day of the
\* month of the latest punch's IST date, ascending.
ExpectedCalendar(recs) ==
  LET nums    == {DayNumberOf(d) : d \in DateKeys(recs)}
      first   == civil_from_days(SetMin(nums))
      last    == civil_from_days(SetMax(nums))
      from    == days_from_civil(first[1], first[2], 1)
      nextY   == IF last[2] = 12 THEN last[1] + 1 ELSE last[1]
      nextM   == IF last[2] = 12 THEN 1 ELSE last[2] + 1
      to      == days_from_civil(nextY, nextM, 1) - 1
  IN  [i \in 1..(to - from + 1) |-> civil_from_days(from + i - 1)]

\* Sum of a function's values over a finite set of indices, the lower
\* indices and the upper ones apart.
RECURSIVE SumOn(_, _)
SumOn(S, f) ==
  IF S = {} THEN 0
  ELSE IF Cardinality(S) = 1 THEN f[CHOOSE x \in S : TRUE]
  ELSE SumOn({x \in S : x <= (SetMin(S) + SetMax(S)) \div 2}, f)
         + SumOn({x \in S : x > (SetMin(S) + SetMax(S)) \div 2}, f)

MinuteOfDay(time) == time[1] * 60 + time[2]

DayMinutes(d) == d.totalHours * 60 + d.totalMinutes

PresentIdx == {i \in 1..Len(Daily) : Daily[i].status = "PRESENT"}

----------------------------------------------------------------------------
(* Properties                                                              *)

\* C1: for a non-empty punch set, the dates of the returned daily records are
\* exactly the calendar dates from the first day of the month of the earliest
\* punch's civil date to the last day of the month of the latest punch's civil
\* date, ascending, one record per date.
C1_CompleteCalendar ==
  Done => [i \in 1..Len(Daily) |-> Daily[i].date] = ExpectedCalendar(records)

C3_Pairing ==
  Done =>
    \A i \in 1..Len(Daily) :
      LET d     == Daily[i]
          n     == Len(d.punches)
          store == assignPunchTypes(groupByDate(records, d.date))
      IN  /\ Len(store) = n
          /\ \A k \in 1..n :
               /\ d.punches[k].type = (IF (k - 1) % 2 = 0 THEN "IN" ELSE "OUT")
               /\ d.punches[k].isPaired = ~(k = n /\ n % 2 = 1)
               /\ store[k].punch_type = d.punches[k].type
               /\ store[k].is_paired = d.punches[k].isPaired
               /\ formatTime(store[k].timestamp) = d.punches[k].time

C3_Witness ==
  /\ Done
  /\ \E i, j \in 1..Len(Daily) :
       /\ Len(Daily[i].punches) = 3
       /\ ~Daily[i].punches[3].isPaired
       /\ Len(Daily[j].punches) = 1

\* C4: a day's duration in minutes is the sum of max(0, out - in) over the
\* sorted index pairs (0,1), (2,3), ...; a trailing odd punch adds nothing;
\* totalMinutes is in 0..59.
C4_Duration ==
  Done =>
    \A i \in 1..Len(Daily) :
      LET d     == Daily[i]
          n     == Len(d.punches)
          pairs == 1..(n \div 2)
          gap   == [k \in pairs |->
                      Max(0, MinuteOfDay(d.punches[2 * k].time)
                             - MinuteOfDay(d.punches[2 * k - 1].time))]
      IN  /\ DayMinutes(d) = SumOn(pairs, gap)
          /\ d.totalMinutes \in 0..59
          /\ d.totalHours >= 0

C4_Witness ==
  /\ Done
  /\ \E i \in 1..Len(Daily) :
       LET d == Daily[i]
       IN  /\ Len(d.punches) = 4
           /\ MinuteOfDay(d.punches[2].time) > MinuteOfDay(d.punches[1].time)
           /\ MinuteOfDay(d.punches[4].time) > MinuteOfDay(d.punches[3].time)
           /\ d.totalHours > 0
           /\ d.totalMinutes > 0

\* C5: the daily records do not depend on the order in which the same punch
\* events are handed to the engine (events sharing an instant included).
C5_OrderInvariant ==
  Done =>
    LET n        == Len(records)
        reversed == [i \in 1..n |-> records[n + 1 - i]]
    IN  calculateUserAttendance(reversed, settings, tz).dailyRecords = Daily

\* C6: isLate iff status is PRESENT and the minute-of-day of firstIn is
\* strictly greater than workStartTime + lateThresholdMinutes; the report
\* query's is_late agrees.
C6_Late ==
  Done =>
    \A i \in 1..Len(Daily) :
      LET d     == Daily[i]
          start == MinuteOfDay(settings.workStartTime)
          late  == /\ d.status = "PRESENT"
                   /\ MinuteOfDay(d.firstIn) > start + settings.lateThresholdMinutes
      IN  /\ d.isLate <=> late
          /\ SqlIsLate(d.status, d.firstIn, start, settings.lateThresholdMinutes)
               <=> late

\* A PRESENT day that arrives exactly at the threshold minute (not late) and a
\* PRESENT day that arrives after it (late).
C6_Witness ==
  /\ Done
  /\ \E i \in 1..Len(Daily) :
       /\ Daily[i].status = "PRESENT"
       /\ MinuteOfDay(Daily[i].firstIn)
            = MinuteOfDay(settings.workStartTime) + settings.lateThresholdMinutes
       /\ ~Daily[i].isLate
  /\ \E j \in 1..Len(Daily) : Daily[j].isLate

\* C7: isEarlyOut iff status is PRESENT and the minute-of-day of lastOut is
\* strictly less than workEndTime - earlyOutThresholdMinutes; the report
\* query's is_early_out agrees.
C7_EarlyOut ==
  Done =>
    \A i \in 1..Len(Daily) :
      LET d      == Daily[i]
          end    == MinuteOfDay(settings.workEndTime)
          early  == /\ d.status = "PRESENT"
                    /\ MinuteOfDay(d.lastOut) < end - settings.earlyOutThresholdMinutes
      IN  /\ d.isEarlyOut <=> early
          /\ SqlIsEarlyOut(d.status, d.lastOut, end, settings.earlyOutThresholdMinutes)
               <=> early

\* A PRESENT day that leaves exactly at the threshold minute (not early) and
\* a PRESENT day that leaves before it (early).
C7_Witness ==
  /\ Done
  /\ \E i \in 1..Len(Daily) :
       /\ Daily[i].status = "PRESENT"
       /\ MinuteOfDay(Daily[i].lastOut)
            = MinuteOfDay(settings.workEndTime) - settings.earlyOutThresholdMinutes
       /\ ~Daily[i].isEarlyOut
  /\ \E j \in 1..Len(Daily) : Daily[j].isEarlyOut

\* C8: overtime is max(0, worked minutes - (workEndTime - workStartTime)) on a
\* PRESENT day and 0 otherwise, never negative; the report query agrees.
C8_Overtime ==
  Done =>
    \A i \in 1..Len(Daily) :
      LET d       == Daily[i]
          start   == MinuteOfDay(settings.workStartTime)
          end     == MinuteOfDay(settings.workEndTime)
          nominal == end - start
          want    == IF d.status = "PRESENT"
                     THEN (IF DayMinutes(d) > nominal THEN DayMinutes(d) - nominal ELSE 0)
                     ELSE 0
      IN  /\ d.overtime = want
          /\ d.overtime >= 0
          /\ SqlOvertime(d.status, DayMinutes(d), start, end) = want

\* A PRESENT day with positive overtime that differs from the time of its
\* last punch past workEndTime, next to a PRESENT day shorter than the shift.
C8_Witness ==
  /\ Done
  /\ \E i \in 1..Len(Daily) :
       /\ Daily[i].status = "PRESENT"
       /\ Daily[i].overtime > 0
       /\ Daily[i].overtime
            # MinuteOfDay(Daily[i].lastOut) - MinuteOfDay(settings.workEndTime)
  /\ \E j \in 1..Len(Daily) :
       /\ Daily[j].status = "PRESENT"
       /\ DayMinutes(Daily[j])
            < MinuteOfDay(settings.workEndTime) - MinuteOfDay(settings.workStartTime)
       /\ Daily[j].overtime = 0

\* C9: the summary's working time is the sum of the PRESENT days' durations
\* only, totalWorkingMinutes is in 0..59, lateDays and earlyOutDays count the
\* PRESENT records with the flag, overtimeMinutes sums the PRESENT overtime.
C9_Summary ==
  Done =>
    /\ summary.totalWorkingHours * 60 + summary.totalWorkingMinutes
         = SumOn(PresentIdx, [i \in PresentIdx |-> DayMinutes(Daily[i])])
    /\ summary.totalWorkingMinutes \in 0..59
    /\ summary.lateDays = Cardinality({i \in PresentIdx : Daily[i].isLate})
    /\ summary.earlyOutDays = Cardinality({i \in PresentIdx : Daily[i].isEarlyOut})
    /\ summary.overtimeMinutes
         = SumOn(PresentIdx, [i \in PresentIdx |-> Daily[i].overtime])
    /\ summary.presentDays = Cardinality(PresentIdx)

\* A summary with an INCOMPLETE day that has a paired duration and a PRESENT
\* day.
C9_Witness ==
  /\ Done
  /\ \E i \in 1..Len(Daily) :
       Daily[i].status = "INCOMPLETE" /\ DayMinutes(Daily[i]) > 0
  /\ summary.totalWorkingHours * 60 + summary.totalWorkingMinutes = 0

\* C10: averageHoursPerDay is 0 when presentDays = 0 and otherwise the PRESENT
\* minutes / 60 / presentDays (rounded to two decimals: within half a
\* hundredth of the exact quotient).
C10_Average ==
  Done =>
    LET total == SumOn(PresentIdx, [i \in PresentIdx |-> DayMinutes(Daily[i])])
        p     == Cardinality(PresentIdx)
        a     == summary.averageHoursPerDay
    IN  /\ p = 0 => a = 0
        /\ p > 0 =>
             /\ 2 * (a * 60 * p - 100 * total) <= 60 * p
             /\ 2 * (100 * total - a * 60 * p) <= 60 * p

\* A summary without any PRESENT day although the employee has punches.
C10_Witness ==
  /\ Done
  /\ summary.presentDays = 0
  /\ summary.incompleteDays > 0
  /\ summary.averageHoursPerDay = 0

----------------------------------------------------------------------------
(* Duration of a day when a pair of punches is added                        *)

\* Total duration (minutes) calculateDailyAttendance returns for the records
\* of one date.
DayTotal(date, recs) ==
  DayMinutes(calculateDailyAttendance(date, recs, DEFAULT_SETTINGS))

\* Two further punch events (in, out) of the employee on date with a positive
\* gap: a pair in the middle of the day and a pair late in the evening.
ExtraPairs(date) ==
  { <<RawRecord(date[1], date[2], date[3], 12,  0, 0, 1),
      RawRecord(date[1], date[2], date[3], 13,  0, 0, 1)>>,
    <<RawRecord(date[1], date[2], date[3], 20,  0, 0, 1),
      RawRecord(date[1], date[2], date[3], 21, 15, 0, 1)>> }

PairGap(pair) ==
  MinuteOfDay(formatTime(pair[2].timestamp)) - MinuteOfDay(formatTime(pair[1].timestamp))

\* The pair's punches are not earlier than any punch of the day.
LaterThanAll(pair, day) ==
  \A i \in 1..Len(day) : day[i].timestamp <= pair[1].timestamp

\* The files that hold the day's records and the pair, the pair written
\* before or after them, in either order.
WithPair(day, pair) ==
  { day \o pair, pair \o day, <<pair[2], pair[1]>> \o day }

----------------------------------------------------------------------------
(* UserDataParser: the binary directory of employee names                   *)
(* A buffer is the sequence of its bytes; byte i of the code (0-based) is   *)
(* element i + 1.  A name is the sequence of its character codes.           *)

IsPrintable(byte) == byte >= 32 /\ byte <= 126

IsDigit(byte) == byte >= 48 /\ byte <= 57

\* Variant: the 66-byte alignment is not detected.
DetectRecordSize_No66(length) ==
  IF length % 72 = 0 THEN 72 ELSE 64

\* Auto-detect record size based on file length alignment.
DetectRecordSize(length) ==
  IF length % 72 = 0 THEN 72
  ELSE IF length % 64 # 0 /\ length % 66 = 0 THEN 66
  ELSE 64

\* buffer.slice(offset, offset + recordSize)
Slice(buffer, offset, recordSize) ==
  SubSeq(buffer, offset + 1, Max(offset, offset + recordSize))

\* for (let i = 10; i < 50; i++) if printable { nameStartIndex = i; break }
\* (a read past the end of the record is undefined and compares false).
NameStartIndex(record) ==
  LET found == {i \in 10..49 : i < Len(record) /\ IsPrintable(record[i + 1])}
  IN  IF found = {} THEN -1 ELSE SetMin(found)

\* Extract name until we hit null bytes or non-ASCII.
RECURSIVE NameLoop(_, _)
NameLoop(record, i) ==
  IF ~(i < Len(record)) THEN <<>>
  ELSE IF ~IsPrintable(record[i + 1]) THEN <<>>
  ELSE <<record[i + 1]>> \o NameLoop(record, i + 1)

\* String.prototype.trim on printable ASCII: spaces are removed at both ends.
RECURSIVE TrimStart(_)
TrimStart(str) ==
  IF str # <<>> /\ str[1] = 32 THEN TrimStart(Tail(str)) ELSE str

RECURSIVE TrimEnd(_)
TrimEnd(str) ==
  IF str # <<>> /\ str[Len(str)] = 32
  THEN TrimEnd(SubSeq(str, 1, Len(str) - 1))
  ELSE str

Trim(str) == TrimEnd(TrimStart(str))

\* parseInt(currentNumber, 10) of a string of decimal digits.
RECURSIVE ParseDigits(_)
ParseDigits(digits) ==
  IF digits = <<>> THEN 0
  ELSE 10 * ParseDigits(SubSeq(digits, 1, Len(digits) - 1))
         + (digits[Len(digits)] - 48)

\* userId === null after the scan.
NoId == -1

\* The first index after i, or record.length, whose byte is a digit or not.
NextIndex(record, i, digit) ==
  SetMin({j \in (i + 1)..Len(record) :
            j = Len(record) \/ IsDigit(record[j + 1]) = digit})

\* Scan through the rest of the record for digit sequences: a run is looked
\* at only when a byte that is not a digit follows it.  The iterations over
\* the digits of a run, which append them to currentNumber, are taken in one
\* step, and so are those over bytes that are no digits while currentNumber
\* is empty, which change nothing.
RECURSIVE IdLoop(_, _, _)
IdLoop(record, i, currentNumber) ==
  IF ~(i < Len(record)) THEN NoId
  ELSE IF IsDigit(record[i + 1])
  THEN IdLoop(record, NextIndex(record, i, FALSE),
              currentNumber \o SubSeq(record, i + 1, NextIndex(record, i, FALSE)))
  ELSE IF Len(currentNumber) > 0
  THEN IF ParseDigits(currentNumber) > 0
       THEN ParseDigits(currentNumber)
       ELSE IdLoop(record, i + 1, <<>>)
  ELSE IdLoop(record, NextIndex(record, i, TRUE), currentNumber)

\* The id of a record whose name starts at nameStartIndex: the scan starts at
\* nameStartIndex + userName.length, userName being the trimmed name.
UserIdOf(record, index, nameStartIndex, userName) ==
  IF IdLoop(record, nameStartIndex + Len(userName), <<>>) = NoId
  THEN index + 1
  ELSE IdLoop(record, nameStartIndex + Len(userName), <<>>)

ParsedName(record, nameStartIndex) == Trim(NameLoop(record, nameStartIndex))

\* Variant: a record whose trimmed name is empty is kept.
RecordOfName_KeepEmpty(record, index, nameStartIndex, userName) ==
  [userId   |-> UserIdOf(record, index, nameStartIndex, userName),
   userName |-> userName]

\* if (!userName) return null; ... return { userId, userName }
RecordOfName(record, index, nameStartIndex, userName) ==
  IF userName = <<>> THEN Null
  ELSE [userId   |-> UserIdOf(record, index, nameStartIndex, userName),
        userName |-> userName]

RecordAt(record, index, nameStartIndex) ==
  IF nameStartIndex = -1 THEN Null
  ELSE RecordOfName(record, index, nameStartIndex, ParsedName(record, nameStartIndex))

\* UserDataParser.parseRecord: Null or [userId, userName].
parseRecord(record, index) == RecordAt(record, index, NameStartIndex(record))

\* V2AttendanceService.parseUserRecord repeats parseRecord statement by
\* statement.
parseUserRecord(record, index) == RecordAt(record, index, NameStartIndex(record))

\* userMapping.set(userId, userName)
MapSet(map, key, value) ==
  [k \in DOMAIN map \cup {key} |-> IF k = key THEN value ELSE map[k]]

MapSetParsed(map, parsedRecord) ==
  IF parsedRecord # Null
  THEN MapSet(map, parsedRecord.userId, parsedRecord.userName)
  ELSE map

\* for (let i = 0; i < recordCount; i++) { ... }: the iterations from i up
\* to recordCount - 1 in order, evaluated as the first half followed by the
\* second half.
RECURSIVE ParseRecordsLoop(_, _, _, _, _)
ParseRecordsLoop(buffer, recordSize, recordCount, i, map) ==
  IF ~(i < recordCount) THEN map
  ELSE IF recordCount - i = 1
  THEN MapSetParsed(map, parseRecord(Slice(buffer, i * recordSize, recordSize), i))
  ELSE ParseRecordsLoop(buffer, recordSize, recordCount, i + (recordCount - i) \div 2,
         ParseRecordsLoop(buffer, recordSize, i + (recordCount - i) \div 2, i, map))

UserMapOfSize(buffer, recordSize) ==
  ParseRecordsLoop(buffer, recordSize, Len(buffer) \div recordSize, 0, <<>>)

\* The map UserDataParser.parse has built when it tests userMapping.size.
UserMapOf(buffer) == UserMapOfSize(buffer, DetectRecordSize(Len(buffer)))

NoUserRecords == "No valid user records found in user data file"

----------------------------------------------------------------------------
(* Directory buffers and the steps of UserDataParser.parse                  *)

\* A zero-filled record of size bytes with the bytes of name from offset
\* nameAt and the bytes of id from offset idAt.
RecordBytes(size, nameAt, name, idAt, id) ==
  [i \in 1..size |->
     IF i - 1 >= nameAt /\ i - 1 < nameAt + Len(name) THEN name[i - nameAt]
     ELSE IF i - 1 >= idAt /\ i - 1 < idAt + Len(id) THEN id[i - idAt]
     ELSE 0]

RecordSizes == {64, 66, 72}

\* Records a device may export (and damaged ones): "AL" with id 7; " A7"
\* with a leading space and no id field; "AL" with id 12 in the last two
\* bytes; an empty record; a name of spaces; "AL" with the fields 0 and 5;
\* "AL" without digits; a name that starts at offset 50; "A7" with id 3; a
\* byte 0x80 before the name "B" with id 9.
RecordVariants(size) ==
  { RecordBytes(size, 11, <<65, 76>>, 48, <<55>>),
    RecordBytes(size, 11, <<32, 65, 55>>, 48, <<>>),
    RecordBytes(size, 11, <<65, 76>>, size - 2, <<49, 50>>),
    RecordBytes(size, 11, <<>>, 48, <<>>),
    RecordBytes(size, 11, <<32, 32>>, 48, <<>>),
    RecordBytes(size, 11, <<65, 76>>, 44, <<48, 1, 53>>),
    RecordBytes(size, 11, <<65, 76>>, 48, <<>>),
    RecordBytes(size, 50, <<65>>, 56, <<55>>),
    RecordBytes(size, 10, <<65, 55>>, 40, <<51>>),
    RecordBytes(size, 11, <<128, 66>>, 20, <<57>>) }

RECURSIVE Concat(_)
Concat(seqs) == IF seqs = <<>> THEN <<>> ELSE seqs[1] \o Concat(Tail(seqs))

\* length zero bytes.
ZeroBytes(length) == [i \in 1..length |-> 0]

\* A buffer of length bytes, zero but for the record "AL" with id 12 in its
\* last two bytes, which stands at offset size.
LongBuffer(length, size) ==
  ZeroBytes(size) \o RecordBytes(size, 11, <<65, 76>>, size - 2, <<49, 50>>)
                 \o ZeroBytes(length - 2 * size)

\* Buffers whose length is a multiple of two of the record sizes: 2112 of
\* 64 and 66, 576 of 64 and 72, 792 of 66 and 72; and a buffer of a 66-byte
\* and a 72-byte record, 138 bytes, a multiple of none.
AmbiguousBuffers ==
  { LongBuffer(2112, 64), LongBuffer(2112, 66), LongBuffer(576, 72),
    LongBuffer(576, 64), LongBuffer(792, 72), LongBuffer(792, 66),
    LongBuffer(138, 66) }

\* Buffers of up to MaxRecords records of one size, buffers that end in a
\* partial record and the buffers of ambiguous length.
DirBuffers ==
  UNION { { Concat(rs) : rs \in [1..n -> RecordVariants(size)] } :
            n \in 0..MaxRecords, size \in RecordSizes }
    \cup { [i \in 1..10 |-> 0],
           RecordBytes(64, 11, <<65, 76>>, 48, <<55>>) \o <<0, 0, 0, 0, 0>> }
    \cup AmbiguousBuffers

\* The engine has nothing to do while a parser is examined on its own.
EngineIdle ==
  /\ tz = 0
  /\ settings = DEFAULT_SETTINGS
  /\ records = <<>>
  /\ pc = "idle"
  /\ summary = NoSummary

InitUsers ==
  /\ EngineIdle
  /\ file = <<>>
  /\ pos = 0
  /\ rawRecords = <<>>
  /\ userFile \in DirBuffers
  /\ userMapping = NoMapping
  /\ outcome = "start"
  /\ selection = NoSelection
  /\ StoreIdle

\* UserDataParser.parse returns the map.
UserDataParserReturn ==
  /\ outcome = "start"
  /\ UserMapOf(userFile) # <<>>
  /\ userMapping' = UserMapOf(userFile)
  /\ outcome' = "returned"
  /\ UNCHANGED <<tz, settings, records, pc, summary, file, pos, rawRecords, userFile, selection, storeVars>>

\* UserDataParser.parse throws: userMapping.size === 0.
UserDataParserThrow ==
  /\ outcome = "start"
  /\ UserMapOf(userFile) = <<>>
  /\ outcome' = NoUserRecords
  /\ UNCHANGED <<tz, settings, records, pc, summary, file, pos, rawRecords,
                 userFile, userMapping, selection, storeVars>>

NextUsers == UserDataParserReturn \/ UserDataParserThrow

SpecUsers == InitUsers /\ [][NextUsers]_vars

----------------------------------------------------------------------------
(* Properties of the directory parser                                       *)

\* The records of the supplied directory buffer, by 0-based index.
RecordCountOf(buffer) == Len(buffer) \div DetectRecordSize(Len(buffer))

RecordOf(buffer, i) ==
  Slice(buffer, i * DetectRecordSize(Len(buffer)), DetectRecordSize(Len(buffer)))

\* Offset of the first printable byte in the window 10..49, if any.
HasNameStart(record) ==
  \E i \in 10..49 : i < Len(record) /\ IsPrintable(record[i + 1])

FirstPrintable(record) ==
  CHOOSE i \in 10..49 :
    /\ i < Len(record) /\ IsPrintable(record[i + 1])
    /\ \A j \in 10..(i - 1) : ~IsPrintable(record[j + 1])

\* Offset just after the name: the first byte from the name's start that is
\* not printable, or the length of the record.
NameEnd(record) ==
  CHOOSE e \in FirstPrintable(record)..Len(record) :
    /\ \A j \in FirstPrintable(record)..(e - 1) : IsPrintable(record[j + 1])
    /\ e < Len(record) => ~IsPrintable(record[e + 1])

\* The record yields a non-empty name: its name holds a byte that is not a
\* space.
YieldsName(record) ==
  /\ HasNameStart(record)
  /\ \E j \in FirstPrintable(record)..(NameEnd(record) - 1) : record[j + 1] # 32

\* Maximal runs of digits <<a, b>> (offsets, inclusive) from offset from on.
DigitRuns(record, from) ==
  { ab \in (from..(Len(record) - 1)) \X (from..(Len(record) - 1)) :
      /\ ab[1] <= ab[2]
      /\ \A j \in ab[1]..ab[2] : IsDigit(record[j + 1])
      /\ ab[1] > from => ~IsDigit(record[ab[1]])
      /\ ab[2] < Len(record) - 1 => ~IsDigit(record[ab[2] + 2]) }

RunValue(record, ab) == ParseDigits(SubSeq(record, ab[1] + 1, ab[2] + 1))

PositiveRuns(record, from) ==
  {ab \in DigitRuns(record, from) : RunValue(record, ab) > 0}

\* The id the directory contract gives the record: the first run of digits
\* after the end of the name that is a positive integer, else index + 1.
ContractId(record, index) ==
  IF PositiveRuns(record, NameEnd(record)) = {} THEN index + 1
  ELSE RunValue(record,
         CHOOSE ab \in PositiveRuns(record, NameEnd(record)) :
           \A cd \in PositiveRuns(record, NameEnd(record)) : ab[1] <= cd[1])

UsersParsed == outcome \in {"returned", NoUserRecords}

\* C13: the id of a directory record is the first run of ASCII digits after
\* the end of its name that parses to a positive integer, wherever the run
\* stands in the rest of the record (digits inside the name are never used);
\* index + 1 is used only when there is no such run.  Both copies of the
\* record parser are held to it.
C13_IdAfterName ==
  UsersParsed =>
    \A i \in 0..(RecordCountOf(userFile) - 1) :
      YieldsName(RecordOf(userFile, i)) =>
        /\ parseRecord(RecordOf(userFile, i), i).userId
             = ContractId(RecordOf(userFile, i), i)
        /\ parseUserRecord(RecordOf(userFile, i), i).userId
             = ContractId(RecordOf(userFile, i), i)

\* C14: UserDataParser.parse throws 'No valid user records found in user data
\* file' exactly when no record of the buffer yields a non-empty name (an
\* empty buffer and a buffer shorter than one record included); otherwise it
\* returns a non-empty map that has an entry for every record with a name.
C14_EmptyDirectoryFails ==
  UsersParsed =>
    LET named == {i \in 0..(RecordCountOf(userFile) - 1) :
                    YieldsName(RecordOf(userFile, i))}
    IN  /\ outcome = NoUserRecords <=> named = {}
        /\ outcome = NoUserRecords => userMapping = NoMapping
        /\ outcome = "returned" =>
             /\ DOMAIN userMapping # {}
             /\ DOMAIN userMapping
                  = {parseRecord(RecordOf(userFile, i), i).userId : i \in named}
             /\ \A id \in DOMAIN userMapping : id > 0

\* A map is returned for a buffer that holds a record without a name next to
\* a record with one.
C14_Witness ==
  /\ outcome = "returned"
  /\ RecordCountOf(userFile) = 2
  /\ \E i \in 0..1 : ~YieldsName(RecordOf(userFile, i))
  /\ \E i \in 0..1 : YieldsName(RecordOf(userFile, i))

\* The record size the format gives a buffer of the length.
SizeByLength(length) ==
  IF length % 72 = 0 THEN 72
  ELSE IF length % 66 = 0 /\ length % 64 # 0 THEN 66
  ELSE 64

\* floor(L / size) consecutive pieces of size bytes from offset 0.
PiecesOf(buffer, size) ==
  [i \in 1..(Len(buffer) \div size) |-> SubSeq(buffer, (i - 1) * size + 1, i * size)]

\* 1-based indices of the pieces that parse to a record.
ParsedPieces(pieces) == {i \in 1..Len(pieces) : parseRecord(pieces[i], i - 1) # Null}

\* The last of the pieces that parse to the id.
LastWithId(pieces, parsedPieces, id) ==
  CHOOSE i \in parsedPieces :
    /\ parseRecord(pieces[i], i - 1).userId = id
    /\ \A j \in parsedPieces : parseRecord(pieces[j], j - 1).userId = id => j <= i

\* The map of the pieces, each parsed under its 0-based index: the name of a
\* later piece replaces that of an earlier piece with the same id.
MapOfPieces(pieces, parsedPieces) ==
  [id \in {parseRecord(pieces[i], i - 1).userId : i \in parsedPieces} |->
     parseRecord(pieces[LastWithId(pieces, parsedPieces, id)],
                 LastWithId(pieces, parsedPieces, id) - 1).userName]

DirectoryBySize(buffer, size, pieces) ==
  /\ DetectRecordSize(Len(buffer)) = size
  /\ \A k \in 1..(Len(pieces) * size) :
       pieces[((k - 1) \div size) + 1][((k - 1) % size) + 1] = buffer[k]
  /\ Len(buffer) - Len(pieces) * size \in 0..(size - 1)
  /\ outcome = "returned" => userMapping = MapOfPieces(pieces, ParsedPieces(pieces))
  /\ outcome = NoUserRecords => ParsedPieces(pieces) = {}

\* C22: for a directory buffer of any length L the record size is 72 if L is
\* divisible by 72, else 66 if L is divisible by 66 and not by 64, else 64;
\* exactly floor(L / recordSize) records are parsed, consecutive and
\* non-overlapping from offset 0, and trailing bytes that do not fill a
\* record are ignored.
C22_RecordSlicing ==
  UsersParsed =>
    DirectoryBySize(userFile, SizeByLength(Len(userFile)),
                    PiecesOf(userFile, SizeByLength(Len(userFile))))

\* A map was returned for a buffer of 2112 bytes, a multiple of 66 and of
\* 64, read as 33 records of 64 bytes.
C22_Witness ==
  /\ outcome = "returned"
  /\ Len(userFile) % 66 = 0 /\ Len(userFile) % 64 = 0 /\ Len(userFile) % 72 # 0
  /\ Len(userFile) > 0
  /\ DOMAIN userMapping # {}

----------------------------------------------------------------------------
(* DatFileParser: the punch file, one line at a time                        *)
(* A line is the sequence of the tokens that split(/\t+|\s{2,}/) and        *)
(* filter(Boolean) leave of it; the empty sequence is a line that is empty  *)
(* after trim().  A token is <<"int", n>> (decimal digits), <<"word">>      *)
(* (letters), <<"date", y, m, d>> ('YYYY-MM-DD'), <<"time", h, mi, s>>      *)
(* ('HH:MM:SS'), <<"datetime", y, m, d, h, mi, s>> (date, one space, time)  *)
(* or <<"spaced">> (two words with one space between them).                 *)

IntTok(n) == <<"int", n>>
WordTok == <<"word">>
SpacedTok == <<"spaced">>
DateTok(y, m, d) == <<"date", y, m, d>>
TimeTok(h, mi, s) == <<"time", h, mi, s>>
DateTimeTok(y, m, d, h, mi, s) == <<"datetime", y, m, d, h, mi, s>>

\* isNaN(parseInt(token, 10)): no leading digits.
ParseIntIsNaN(token) == token[1] \in {"word", "spaced"}

\* parseInt(token, 10) reads the leading digits: the whole of an integer
\* token, the year of a date, the hour of a time.
ParseInt(token) == token[2]

\* token.includes(ch) for ch one of ':', '-', ' '.
Includes(token, ch) ==
  \/ token[1] = "datetime"
  \/ token[1] = "spaced" /\ ch = " "
  \/ token[1] = "date" /\ ch = "-"
  \/ token[1] = "time" /\ ch = ":"

\* isNaN(timestamp.getTime())
InvalidDate == -1

FieldsInRange(y, m, d, h, mi, s) ==
  /\ m \in 1..12 /\ d \in 1..31
  /\ h \in 0..23 /\ mi \in 0..59 /\ s \in 0..59

\* new Date(timestampStr + '+05:30').getTime() in seconds: timestampStr is
\* the sequence of the tokens joined by single spaces.
DateParse(timestampStr) ==
  IF Len(timestampStr) = 1 /\ timestampStr[1][1] = "datetime"
  THEN LET t == timestampStr[1]
       IN  IF FieldsInRange(t[2], t[3], t[4], t[5], t[6], t[7])
           THEN parseTimestampIST(t[2], t[3], t[4], t[5], t[6], t[7])
           ELSE InvalidDate
  ELSE IF /\ Len(timestampStr) = 2
          /\ timestampStr[1][1] = "date" /\ timestampStr[2][1] = "time"
  THEN LET dt == timestampStr[1]
           tm == timestampStr[2]
       IN  IF FieldsInRange(dt[2], dt[3], dt[4], tm[2], tm[3], tm[4])
           THEN parseTimestampIST(dt[2], dt[3], dt[4], tm[2], tm[3], tm[4])
           ELSE InvalidDate
  ELSE InvalidDate

\* parts[i] of the code (0-based); undefined prints as the word 'undefined'.
PartAt(parts, i) == IF i < Len(parts) THEN parts[i + 1] ELSE WordTok

\* parts[2]?.includes(':')
Part2HasColon(parts) == Len(parts) > 2 /\ Includes(parts[3], ":")

\* Parse timestamp - might be split across parts[1] and parts[2]:
\* [timestampStr, nextIndex].
SelectTimestamp(parts) ==
  IF Includes(parts[2], " ") \/ (Includes(parts[2], "-") /\ Part2HasColon(parts))
  THEN IF Includes(parts[2], ":")
       THEN [timestampStr |-> <<parts[2]>>, nextIndex |-> 2]
       ELSE [timestampStr |-> <<parts[2], PartAt(parts, 2)>>, nextIndex |-> 3]
  ELSE [timestampStr |-> <<parts[2]>>, nextIndex |-> 2]

\* parseInt(parts[i] || default, 10) || default
OptionalField(parts, i, default) ==
  IF ~(i < Len(parts)) THEN default
  ELSE IF ParseIntIsNaN(parts[i + 1]) THEN default
  ELSE IF ParseInt(parts[i + 1]) = 0 THEN default
  ELSE ParseInt(parts[i + 1])

LineRecord(parts, uid, timestamp, nextIndex) ==
  IF timestamp = InvalidDate THEN Null
  ELSE [userId           |-> uid,
        timestamp        |-> timestamp,
        verificationType |-> OptionalField(parts, nextIndex, 1),
        inOutStatus      |-> OptionalField(parts, nextIndex + 1, 0),
        workCode         |-> OptionalField(parts, nextIndex + 2, 1),
        reserved         |-> OptionalField(parts, nextIndex + 3, 0)]

LineOfSelection(parts, sel) ==
  LineRecord(parts, ParseInt(parts[1]), DateParse(sel.timestampStr), sel.nextIndex)

\* Variant: a line whose first token is not a number is not dropped; the
\* record gets the id 0.
parseLine_KeepBadId(parts) ==
  IF Len(parts) < 2 THEN Null
  ELSE IF ParseIntIsNaN(parts[1])
  THEN LineRecord(parts, 0, DateParse(SelectTimestamp(parts).timestampStr),
                  SelectTimestamp(parts).nextIndex)
  ELSE LineOfSelection(parts, SelectTimestamp(parts))

\* DatFileParser.parseLine: Null or the RawAttendanceRecord of the line.
parseLine(parts) ==
  IF Len(parts) < 2 THEN Null
  ELSE IF ParseIntIsNaN(parts[1]) THEN Null
  ELSE LineOfSelection(parts, SelectTimestamp(parts))

\* One pass of the for-await loop of DatFileParser.parse over a line.
PushParsed(recs, record) == IF record # Null THEN Append(recs, record) ELSE recs

ParseStep(recs, line) ==
  IF line = <<>> THEN recs ELSE PushParsed(recs, parseLine(line))

----------------------------------------------------------------------------
(* processFile with both parsers: inputs, state and steps                   *)

\* Lines a punch file of the employee may hold:
\*   ''                                      (empty after trim)
\*   '5<TAB>2025-12-31 09:00:00<TAB>1<TAB>0<TAB>1<TAB>0'
\*   '5<TAB>2025-12-31<TAB>19:30:00<TAB>2<TAB>1<TAB>0<TAB>7'
\*   '5<TAB>2025-12-31 18:14:30'
\*   '5<TAB>2026-02-28 09:45:59<TAB>0<TAB>0<TAB>0<TAB>0'
\*   '5<TAB>2025-12-31 12:00:00<TAB>15<TAB>x<TAB>3'
\*   'x<TAB>2025-12-31 09:00:00'
\*   '5'
\*   '5<TAB>2025-13-45 09:00:00<TAB>1'
LineShapes ==
  { <<>>,
    <<IntTok(5), DateTimeTok(2025, 12, 31, 9, 0, 0),
      IntTok(1), IntTok(0), IntTok(1), IntTok(0)>>,
    <<IntTok(5), DateTok(2025, 12, 31), TimeTok(19, 30, 0),
      IntTok(2), IntTok(1), IntTok(0), IntTok(7)>>,
    <<IntTok(5), DateTimeTok(2025, 12, 31, 18, 14, 30)>>,
    <<IntTok(5), DateTimeTok(2026, 2, 28, 9, 45, 59),
      IntTok(0), IntTok(0), IntTok(0), IntTok(0)>>,
    <<IntTok(5), DateTimeTok(2025, 12, 31, 12, 0, 0),
      IntTok(15), WordTok, IntTok(3)>>,
    <<WordTok, DateTimeTok(2025, 12, 31, 9, 0, 0)>>,
    <<IntTok(5)>>,
    <<IntTok(5), DateTimeTok(2025, 13, 45, 9, 0, 0), IntTok(1)>> }

Files == UNION { [1..n -> LineShapes] : n \in 0..MaxLines }

\* Directory files a caller may send with the punch file: none, an empty
\* file, an empty record, the record of 'AL' with id 5, of 'AL' with id 7.
UserFiles ==
  { NoFile,
    <<>>,
    RecordBytes(64, 11, <<>>, 48, <<>>),
    RecordBytes(64, 11, <<65, 76>>, 48, <<53>>),
    RecordBytes(64, 11, <<65, 76>>, 48, <<55>>) }

NoAttendanceRecords == "No valid attendance records found in file"

InitFile ==
  /\ EngineIdle
  /\ file \in Files
  /\ pos = 0
  /\ rawRecords = <<>>
  /\ userFile \in UserFiles
  /\ userMapping = NoMapping
  /\ outcome = "start"
  /\ selection = NoSelection
  /\ StoreIdle

\* try { userMapping = await this.userDataParser.parse(userFileBuffer) }
\* catch { console.warn(...) }: a throw leaves userMapping undefined.
ParseUserFile ==
  /\ outcome = "start"
  /\ userMapping' = IF userFile = NoFile THEN NoMapping
                    ELSE IF UserMapOf(userFile) = <<>> THEN NoMapping
                    ELSE UserMapOf(userFile)
  /\ outcome' = "lines"
  /\ UNCHANGED <<tz, settings, records, pc, summary, file, pos, rawRecords, userFile, selection, storeVars>>

\* The next line of the stream goes through the loop body of
\* DatFileParser.parse.
ReadLine ==
  /\ outcome = "lines"
  /\ pos < Len(file)
  /\ rawRecords' = ParseStep(rawRecords, file[pos + 1])
  /\ pos' = pos + 1
  /\ UNCHANGED <<tz, settings, records, pc, summary, file, userFile, userMapping, outcome, selection, storeVars>>

\* rawRecords.length === 0: processFile throws.
ProcessFileThrow ==
  /\ outcome = "lines"
  /\ pos = Len(file)
  /\ rawRecords = <<>>
  /\ outcome' = NoAttendanceRecords
  /\ UNCHANGED <<tz, settings, records, pc, summary, file, pos, rawRecords,
                 userFile, userMapping, selection, storeVars>>

\* The records of one user, in file order.
groupByUser(recs, uid) == SelectSeq(recs, LAMBDA r : r.userId = uid)

\* Enrich with user name if available.
WithUserName(s, uid, mapping) ==
  IF uid \in DOMAIN mapping THEN s @@ [userName |-> mapping[uid]] ELSE s

\* processFile returns the report of the employee.
ProcessFileReturn ==
  /\ outcome = "lines"
  /\ pos = Len(file)
  /\ rawRecords # <<>>
  /\ records' = groupByUser(rawRecords, userId)
  /\ summary' = WithUserName(calculateUserAttendance(records', settings, tz),
                             userId, userMapping)
  /\ pc' = "done"
  /\ outcome' = "report"
  /\ UNCHANGED <<tz, settings, file, pos, rawRecords, userFile, userMapping, selection, storeVars>>

NextFile ==
  \/ ParseUserFile
  \/ ReadLine
  \/ ProcessFileThrow
  \/ ProcessFileReturn

SpecFile == InitFile /\ [][NextFile]_vars

----------------------------------------------------------------------------
(* Properties of the line parser and of processFile                         *)

\* A line of the punch format: at least two tokens, an integer id, and a
\* timestamp in one token or in a date token followed by a time token, with
\* every field in range.
WellFormedLine(line) ==
  /\ Len(line) >= 2
  /\ line[1][1] = "int"
  /\ \/ /\ line[2][1] = "datetime"
        /\ FieldsInRange(line[2][2], line[2][3], line[2][4],
                         line[2][5], line[2][6], line[2][7])
     \/ /\ Len(line) >= 3
        /\ line[2][1] = "date" /\ line[3][1] = "time"
        /\ FieldsInRange(line[2][2], line[2][3], line[2][4],
                         line[3][2], line[3][3], line[3][4])

\* The instant a well-formed line names, its digits read as IST.
InstantOfLine(line) ==
  IF line[2][1] = "datetime"
  THEN parseTimestampIST(line[2][2], line[2][3], line[2][4],
                         line[2][5], line[2][6], line[2][7])
  ELSE parseTimestampIST(line[2][2], line[2][3], line[2][4],
                         line[3][2], line[3][3], line[3][4])

\* The well-formed lines among the lines read so far, in file order.
WellFormedRead == SelectSeq(SubSeq(file, 1, pos), WellFormedLine)

FileParsing == outcome \in {"lines", "report", NoAttendanceRecords}

FirstOptional(line) == IF line[2][1] = "datetime" THEN 3 ELSE 4

\* The value the format gives an optional field: the number of its token
\* when the token is there and numeric, else the default.
FieldValue(line, k, default) ==
  IF k <= Len(line) /\ line[k][1] = "int" THEN line[k][2] ELSE default

\* C12: each of the four optional fields of a parsed line is the numeric
\* value of its token whenever the token is present and numeric, the value 0
\* included; the defaults 1, 0, 1, 0 are used only for a missing or
\* non-numeric token.
C12_OptionalFields ==
  FileParsing =>
    \A i \in 1..pos :
      WellFormedLine(file[i]) =>
        LET r == parseLine(file[i])
            k == FirstOptional(file[i])
        IN  /\ r.verificationType = FieldValue(file[i], k, 1)
            /\ r.inOutStatus = FieldValue(file[i], k + 1, 0)
            /\ r.workCode = FieldValue(file[i], k + 2, 1)
            /\ r.reserved = FieldValue(file[i], k + 3, 0)

\* No record of the supplied directory file has a name.
NoDirectoryRecord ==
  /\ userFile # NoFile
  /\ \A i \in 0..(RecordCountOf(userFile) - 1) : ~YieldsName(RecordOf(userFile, i))

\* C15: processFile fails when the punch file yields no valid record, and
\* fails when a supplied directory file yields no valid directory record.
C15_FatalIngestion ==
  outcome \in {"report", NoAttendanceRecords} =>
    /\ rawRecords = <<>> => outcome = NoAttendanceRecords
    /\ NoDirectoryRecord => outcome # "report"

----------------------------------------------------------------------------
(* V2AttendanceService: the persisted store of one employee                 *)
(* A row of punches is [punch_time, verification_type, punch_type,          *)
(* is_paired, is_edited] (punch_type "NULL" is the SQL null); the unique    *)
(* index idx_employee_punch_time makes punch_time a key.  daily_attendance  *)
(* is a function from the date of a row to [status, first_in, last_out,     *)
(* total_minutes, punch_count, day_code]; idx_employee_date makes the date  *)
(* a key.                                                                   *)

\* new Date(`${dateStr}T00:00:00+05:30`) and `${dateStr}T23:59:59.999+05:30`
\* (instants are whole seconds).
StartOfDay(dateStr) == parseTimestampIST(dateStr[1], dateStr[2], dateStr[3], 0, 0, 0)

EndOfDay(dateStr) == parseTimestampIST(dateStr[1], dateStr[2], dateStr[3], 23, 59, 59)

\* punch_time: Between(startOfDay, endOfDay)
DayRows(rows, dateStr) ==
  {p \in rows : StartOfDay(dateStr) <= p.punch_time /\ p.punch_time <= EndOfDay(dateStr)}

\* order: { punch_time: "ASC" }
RECURSIVE OrderByPunchTime(_)
OrderByPunchTime(rows) ==
  IF rows = {} THEN <<>>
  ELSE LET first == CHOOSE p \in rows : \A q \in rows : p.punch_time <= q.punch_time
       IN  <<first>> \o OrderByPunchTime(rows \ {first})

\* punch_time.toISOString().split("T")[0]: the UTC date of the instant.
ISODate(t) == civil_from_days(t \div SecPerDay)

\* formatTime of the service: getHours/getMinutes/getSeconds are those of the
\* process-local zone.
LocalTime(t, tzv) ==
  LET sod == (t + tzv * 60) % SecPerDay
  IN  <<sod \div 3600, (sod % 3600) \div 60, sod % 60>>

\* getDayCode: days[new Date(dateStr + "T00:00:00").getDay()]
getDayCode(dateStr) ==
  <<"Sun", "Mon", "Tue", "Wed", "Thu", "Fri", "Sat">>[
     ((days_from_civil(dateStr[1], dateStr[2], dateStr[3]) + 4) % 7) + 1]

\* The timestamps handed to assignPunchTypes.
TimesOf(dayPunches) ==
  [k \in 1..Len(dayPunches) |-> [timestamp |-> dayPunches[k].punch_time]]

\* assignPunchTypes(dayPunches); save(dayPunches): the rows with their labels.
LabelledWith(dayPunches, labels) ==
  { [dayPunches[k] EXCEPT !.punch_type = labels[k].punch_type,
                          !.is_paired  = labels[k].is_paired] :
      k \in 1..Len(dayPunches) }

Labelled(dayPunches) == LabelledWith(dayPunches, assignPunchTypes(TimesOf(dayPunches)))

\* totalMinutes += Math.max(0, outMin - inMin) over (0,1), (2,3), ... with
\* the process-local times (i is the 0-based loop index).
RECURSIVE LocalPairLoop(_, _, _)
LocalPairLoop(dayPunches, i, tzv) ==
  IF ~(i < Len(dayPunches) - 1) THEN 0
  ELSE Max(0, timeToMinutes(LocalTime(dayPunches[i + 2].punch_time, tzv))
                - timeToMinutes(LocalTime(dayPunches[i + 1].punch_time, tzv)))
         + LocalPairLoop(dayPunches, i + 2, tzv)

\* The values computeDailyAttendanceForDay writes for the day.
DayValues(dateStr, dayPunches, tzv) ==
  [status        |-> StatusOfCount(Len(dayPunches)),
   first_in      |-> IF Len(dayPunches) > 0
                     THEN LocalTime(dayPunches[1].punch_time, tzv) ELSE Null,
   last_out      |-> IF Len(dayPunches) > 1
                     THEN LocalTime(dayPunches[Len(dayPunches)].punch_time, tzv)
                     ELSE Null,
   total_minutes |-> LocalPairLoop(dayPunches, 0, tzv),
   punch_count   |-> Len(dayPunches),
   day_code      |-> getDayCode(dateStr)]

\* computeDailyAttendanceForDay: the row upserted for (employee, dateStr);
\* an existing row is overwritten field by field, whatever its status.
computeDailyAttendanceForDay(rows, dateStr, tzv) ==
  DayValues(dateStr, OrderByPunchTime(DayRows(rows, dateStr)), tzv)

\* recalculateDay, daily part: the same computation, written out again.
recalculateDayValues(rows, dateStr, tzv) ==
  DayValues(dateStr, OrderByPunchTime(DayRows(rows, dateStr)), tzv)

\* recalculateDay, punch part: the rows of the day are relabelled.
recalculateDayRows(rows, dateStr) ==
  (rows \ DayRows(rows, dateStr)) \cup Labelled(OrderByPunchTime(DayRows(rows, dateStr)))

\* daily_attendance after an upsert of (dateStr, values).
Upsert(table, dateStr, values) ==
  [d \in DOMAIN table \cup {dateStr} |-> IF d = dateStr THEN values ELSE table[d]]

----------------------------------------------------------------------------
(* uploadAttendance                                                         *)

\* V2AttendanceService.parseAttendanceLine: Null or
\* [biometric_id, punch_time, verification_type]; the timestamp is parts[1]
\* if it holds a ':', else parts[1] and parts[2].
AttendanceTimestamp(parts) ==
  IF Includes(parts[2], ":")
  THEN [timestampStr |-> <<parts[2]>>, nextIndex |-> 2]
  ELSE [timestampStr |-> <<parts[2], PartAt(parts, 2)>>, nextIndex |-> 3]

AttendanceRecord(parts, punch_time, nextIndex) ==
  IF punch_time = InvalidDate THEN Null
  ELSE [biometric_id      |-> ParseInt(parts[1]),
        punch_time        |-> punch_time,
        verification_type |-> IF OptionalField(parts, nextIndex, 1) = 2
                              THEN "Card" ELSE "Fingerprint"]

AttendanceOfSelection(parts, sel) ==
  AttendanceRecord(parts, DateParse(sel.timestampStr), sel.nextIndex)

parseAttendanceLine(parts) ==
  IF Len(parts) < 2 THEN Null
  ELSE IF ParseIntIsNaN(parts[1]) THEN Null
  ELSE AttendanceOfSelection(parts, AttendanceTimestamp(parts))

\* The row inserted for a parsed line.
UploadedRow(parsed) ==
  [punch_time        |-> parsed.punch_time,
   verification_type |-> parsed.verification_type,
   punch_type        |-> "NULL",
   is_paired         |-> FALSE,
   is_edited         |-> FALSE]

\* The state of the upload loop: rows of the employee, counters, the
\* biometric ids seen and the dates tracked for them.
UploadStart(rows) ==
  [rows |-> rows, inserted |-> 0, skipped |-> 0, ids |-> {}, dates |-> {}]

\* Variant: without the unique index on (employee_id, punch_time) every
\* parsed line is inserted.
InsertOrIgnore_NoIndex(acc, parsed) ==
  [acc EXCEPT !.inserted = @ + 1,
              !.rows     = @ \cup {UploadedRow(parsed)},
              !.ids      = @ \cup {parsed.biometric_id},
              !.dates    = @ \cup {ISODate(parsed.punch_time)}]

\* insert ... orIgnore(): ON CONFLICT DO NOTHING on (employee_id, punch_time).
InsertOrIgnore(acc, parsed) ==
  IF \E p \in acc.rows : p.punch_time = parsed.punch_time
  THEN [acc EXCEPT !.skipped = @ + 1,
                   !.ids     = @ \cup {parsed.biometric_id},
                   !.dates   = @ \cup {ISODate(parsed.punch_time)}]
  ELSE [acc EXCEPT !.inserted = @ + 1,
                   !.rows     = @ \cup {UploadedRow(parsed)},
                   !.ids      = @ \cup {parsed.biometric_id},
                   !.dates    = @ \cup {ISODate(parsed.punch_time)}]

\* One pass of the loop body over a line.
UploadLine(acc, line, parsed) ==
  IF line = <<>> THEN acc
  ELSE IF parsed = Null THEN [acc EXCEPT !.skipped = @ + 1]
  ELSE InsertOrIgnore(acc, parsed)

RECURSIVE UploadLoop(_, _)
UploadLoop(lines, acc) ==
  IF lines = <<>> THEN acc
  ELSE UploadLoop(Tail(lines),
                  UploadLine(acc, Head(lines),
                             IF Head(lines) = <<>> THEN Null
                             ELSE parseAttendanceLine(Head(lines))))

\* new Date(year, month, 0).getDate()
DaysInMonth(year, month) ==
  days_from_civil(IF month = 12 THEN year + 1 ELSE year,
                  IF month = 12 THEN 1 ELSE month + 1, 1)
    - days_from_civil(year, month, 1)

\* EXPANSION: every day of every month named by a tracked date string.
ExpandMonths(dates) ==
  dates \cup UNION { { <<d[1], d[2], day>> : day \in 1..DaysInMonth(d[1], d[2]) } :
                       d \in dates }

\* computePunchTypes (optimized path): the days with punches are relabelled.
computePunchTypes(rows, dates) ==
  (rows \ UNION {DayRows(rows, d) : d \in dates})
    \cup UNION {Labelled(OrderByPunchTime(DayRows(rows, d))) : d \in dates}

\* computeDailyAttendance (optimized path): every date is upserted.
computeDailyAttendance(table, rows, dates, tzv) ==
  [d \in DOMAIN table \cup dates |->
     IF d \in dates THEN computeDailyAttendanceForDay(rows, d, tzv) ELSE table[d]]

----------------------------------------------------------------------------
(* The store: requests and steps                                            *)

\* '5<TAB>YYYY-MM-DD HH:MM:SS<TAB>code' of the employee.
StoreLine(y, m, d, h, mi, code) ==
  <<IntTok(userId), DateTimeTok(y, m, d, h, mi, 0), IntTok(code)>>

\* Attendance files a device may deliver around the turn of the month: the
\* two punches of 2026-01-01 (09:00, 18:00); a punch at 03:00 of 2026-01-01;
\* a card punch of 2025-12-31 with a line that does not parse; a punch of
\* 2026-01-02; a file without a line that parses.
UploadFiles ==
  { <<StoreLine(2026, 1, 1, 9, 0, 1), StoreLine(2026, 1, 1, 18, 0, 1)>>,
    <<StoreLine(2026, 1, 1, 3, 0, 1)>>,
    <<StoreLine(2025, 12, 31, 10, 0, 2), <<IntTok(userId)>>>>,
    <<StoreLine(2026, 1, 2, 10, 0, 1)>>,
    <<<<WordTok, WordTok>>>> }

\* Process-local UTC offsets of the service: UTC (the container) and Kolkata.
StoreTzOffsets == {0, 330}

\* add-punch bodies: the employee or an unknown id, 'HH:MM' times of
\* 2026-01-01 and a time that is no time.
AddRequests ==
  { [userId |-> 5, date |-> <<2026, 1, 1>>, time |-> <<3, 0>>,  isManual |-> TRUE],
    [userId |-> 5, date |-> <<2026, 1, 1>>, time |-> <<9, 0>>,  isManual |-> TRUE],
    [userId |-> 5, date |-> <<2026, 1, 1>>, time |-> <<18, 0>>, isManual |-> FALSE],
    [userId |-> 5, date |-> <<2026, 1, 1>>, time |-> <<24, 30>>, isManual |-> TRUE],
    [userId |-> 6, date |-> <<2026, 1, 1>>, time |-> <<9, 0>>,  isManual |-> TRUE] }

\* delete-punch bodies: punchTime is the ISO string of an instant, or no date.
DeleteRequests ==
  { [userId |-> 5, punchTime |-> parseTimestampIST(2026, 1, 1, 3, 0, 0)],
    [userId |-> 5, punchTime |-> parseTimestampIST(2026, 1, 1, 9, 0, 0)],
    [userId |-> 5, punchTime |-> parseTimestampIST(2026, 1, 1, 18, 0, 0)],
    [userId |-> 5, punchTime |-> parseTimestampIST(2025, 12, 31, 10, 0, 0)],
    [userId |-> 5, punchTime |-> InvalidDate],
    [userId |-> 6, punchTime |-> parseTimestampIST(2026, 1, 1, 9, 0, 0)] }

\* mark-comp-off bodies.
CompOffRequests ==
  { [userId |-> 5, date |-> <<2025, 12, 31>>],
    [userId |-> 5, date |-> <<2026, 1, 1>>],
    [userId |-> 5, date |-> <<2026, 1, 2>>],
    [userId |-> 6, date |-> <<2026, 1, 1>>] }

Request(op, ok, arg, inserted, skipped) ==
  [op |-> op, ok |-> ok, arg |-> arg, inserted |-> inserted, skipped |-> skipped]

InitStore ==
  /\ tz \in StoreTzOffsets
  /\ settings = DEFAULT_SETTINGS
  /\ records = <<>>
  /\ pc = "idle"
  /\ summary = NoSummary
  /\ ParserIdle
  /\ StoreIdle

\* The recalculation phase of uploadAttendance and the commit.
UploadCommit(buffer, acc, dates) ==
  /\ employees' = employees \cup acc.ids
  /\ punchTable' = IF acc.dates # {} THEN computePunchTypes(acc.rows, dates) ELSE acc.rows
  /\ dailyTable' = IF acc.dates # {}
                   THEN computeDailyAttendance(dailyTable, punchTable', dates, tz)
                   ELSE dailyTable
  /\ lastRequest' = Request("uploadAttendance", TRUE, buffer, acc.inserted, acc.skipped)

UploadOf(buffer, acc) == UploadCommit(buffer, acc, ExpandMonths(acc.dates))

\* uploadAttendance(buffer): one transaction.
uploadAttendance(buffer) ==
  /\ UploadOf(buffer, UploadLoop(buffer, UploadStart(punchTable)))
  /\ UNCHANGED <<tz, settings, records, pc, summary, parserVars, txs>>

\* A request that throws: the transaction, if any, is rolled back.
Fails(op, arg) ==
  /\ lastRequest' = Request(op, FALSE, arg, 0, 0)
  /\ UNCHANGED <<tz, settings, records, pc, summary, parserVars,
                 employees, punchTable, dailyTable, txs>>

\* new Date(`${date}T${time}:00+05:30`)
AddPunchTime(date, time) ==
  IF FieldsInRange(date[1], date[2], date[3], time[1], time[2], 0)
  THEN parseTimestampIST(date[1], date[2], date[3], time[1], time[2], 0)
  ELSE InvalidDate

\* The row addPunch inserts.
AddedRow(punchTime, isManual) ==
  [punch_time        |-> punchTime,
   verification_type |-> IF isManual THEN "Manual" ELSE "Fingerprint",
   punch_type        |-> "NULL",
   is_paired         |-> FALSE,
   is_edited         |-> isManual]

\* recalculateDay(manager, employee.id, dateStr) on the rows of the
\* transaction.
RecalculatedDay(rows, dateStr) ==
  /\ punchTable' = recalculateDayRows(rows, dateStr)
  /\ dailyTable' = Upsert(dailyTable, dateStr,
                          recalculateDayValues(punchTable', dateStr, tz))

\* Variant: a punch that already exists is replaced by the new row and the
\* day recalculated before the request fails.
AddPunchAt_Replace(r, punchTime) ==
  IF \/ r.userId \notin employees
     \/ punchTime = InvalidDate
  THEN Fails("addPunch", <<>>)
  ELSE /\ RecalculatedDay({p \in punchTable : p.punch_time # punchTime}
                            \cup {AddedRow(punchTime, r.isManual)}, r.date)
       /\ lastRequest' = Request("addPunch",
                                 ~\E p \in punchTable : p.punch_time = punchTime,
                                 <<>>, 0, 0)
       /\ UNCHANGED <<tz, settings, records, pc, summary, parserVars, employees, txs>>

AddPunchAt(r, punchTime) ==
  IF \/ r.userId \notin employees
     \/ punchTime = InvalidDate
     \/ \E p \in punchTable : p.punch_time = punchTime
  THEN Fails("addPunch", <<>>)
  ELSE /\ RecalculatedDay(punchTable \cup {AddedRow(punchTime, r.isManual)}, r.date)
       /\ lastRequest' = Request("addPunch", TRUE, <<>>, 0, 0)
       /\ UNCHANGED <<tz, settings, records, pc, summary, parserVars, employees, txs>>

\* addPunch(userId, date, time, isManual): one transaction; an unknown
\* employee, an invalid time and a violation of the unique index throw.
addPunch(r) == AddPunchAt(r, AddPunchTime(r.date, r.time))

\* deletePunch(userId, punchTimeStr): one transaction; the day recalculated
\* is the one named by punchTime.toISOString().
deletePunch(r) ==
  IF \/ r.userId \notin employees
     \/ r.punchTime = InvalidDate
     \/ ~\E p \in punchTable : p.punch_time = r.punchTime
  THEN Fails("deletePunch", <<>>)
  ELSE /\ RecalculatedDay({p \in punchTable : p.punch_time # r.punchTime},
                          ISODate(r.punchTime))
       /\ lastRequest' = Request("deletePunch", TRUE, <<>>, 0, 0)
       /\ UNCHANGED <<tz, settings, records, pc, summary, parserVars, employees, txs>>

\* The row markCompOff saves.
CompRecord(date) ==
  [status |-> "COMP", first_in |-> Null, last_out |-> Null,
   total_minutes |-> 0, punch_count |-> 0, day_code |-> getDayCode(date)]

\* Variant: only the status of an existing record is written, whatever it
\* was.
markCompOff_StatusOnly(r) ==
  IF r.userId \notin employees
  THEN Fails("markCompOff", r.date)
  ELSE /\ dailyTable' = IF r.date \in DOMAIN dailyTable
                        THEN [dailyTable EXCEPT ![r.date].status = "COMP"]
                        ELSE Upsert(dailyTable, r.date, CompRecord(r.date))
       /\ lastRequest' = Request("markCompOff", TRUE, r.date, 0, 0)
       /\ UNCHANGED <<tz, settings, records, pc, summary, parserVars,
                      employees, punchTable, txs>>

\* markCompOff(userId, date): throws for an unknown employee and for a
\* record whose status is not ABSENT; without a record it creates one.
markCompOff(r) ==
  IF \/ r.userId \notin employees
     \/ r.date \in DOMAIN dailyTable /\ dailyTable[r.date].status # "ABSENT"
  THEN Fails("markCompOff", r.date)
  ELSE /\ dailyTable' = Upsert(dailyTable, r.date, CompRecord(r.date))
       /\ lastRequest' = Request("markCompOff", TRUE, r.date, 0, 0)
       /\ UNCHANGED <<tz, settings, records, pc, summary, parserVars,
                      employees, punchTable, txs>>

NextStore ==
  \/ \E buffer \in UploadFiles : uploadAttendance(buffer)
  \/ \E r \in AddRequests : addPunch(r)
  \/ \E r \in DeleteRequests : deletePunch(r)
  \/ \E r \in CompOffRequests : markCompOff(r)

SpecStore == InitStore /\ [][NextStore]_vars

----------------------------------------------------------------------------
(* Properties of the store                                                  *)

\* The record of the day says PRESENT, INCOMPLETE or COMP, or the employee
\* has stored punches on the day.
DayIsTaken(date) ==
  \/ /\ date \in DOMAIN dailyTable
     /\ dailyTable[date].status \in {"PRESENT", "INCOMPLETE", "COMP"}
  \/ DayRows(punchTable, date) # {}

\* C16: markCompOff changes a day to COMP only as a transition out of
\* ABSENT: for a day that is PRESENT or INCOMPLETE (the employee has stored
\* punches on it) or already COMP the call fails and leaves the daily record
\* unchanged, in every reachable state of the store.
C16_CompOnlyFromAbsent ==
  [][lastRequest'.op = "markCompOff" =>
       /\ DayIsTaken(lastRequest'.arg) =>
            ~lastRequest'.ok /\ dailyTable' = dailyTable
       /\ lastRequest'.ok =>
            /\ ~DayIsTaken(lastRequest'.arg)
            /\ dailyTable'[lastRequest'.arg].status = "COMP"]_vars

\* C17: in every state reached by uploadAttendance, addPunch, deletePunch
\* and markCompOff, every daily_attendance record whose status is COMP has
\* first_in = null, last_out = null, total_minutes = 0 and punch_count = 0.
C17_CompIsZeroed ==
  \A d \in DOMAIN dailyTable :
    dailyTable[d].status = "COMP" =>
      /\ dailyTable[d].first_in = Null
      /\ dailyTable[d].last_out = Null
      /\ dailyTable[d].total_minutes = 0
      /\ dailyTable[d].punch_count = 0

\* A COMP record stands next to a PRESENT record with a duration, and the
\* last request was a punch mutation or an upload that went through.
C17_Witness ==
  /\ \E d \in DOMAIN dailyTable : dailyTable[d].status = "COMP"
  /\ \E d \in DOMAIN dailyTable :
       dailyTable[d].status = "PRESENT" /\ dailyTable[d].total_minutes > 0
  /\ lastRequest.op \in {"uploadAttendance", "addPunch", "deletePunch"}
  /\ lastRequest.ok

\* Number of lines of a file that are not empty.
NonEmptyLines(buffer) == Cardinality({i \in 1..Len(buffer) : buffer[i] # <<>>})

----------------------------------------------------------------------------
(* addPunch and deletePunch as concurrent transactions                      *)
(*                                                                          *)
(* dataSource.transaction() opens a transaction at the default isolation    *)
(* level of PostgreSQL, READ COMMITTED: a statement sees the committed rows *)
(* and the writes of its own transaction; a write waits for the row lock of *)
(* an open transaction.  Each await of the service is one step.  The rows   *)
(* of one manager.save(Punch, dayPunches) are locked together.              *)

\* add-punch and delete-punch bodies sent at the same time for 2026-01-01.
TxAddRequests ==
  { [userId |-> 5, date |-> <<2026, 1, 1>>, time |-> <<9, 0>>,  isManual |-> TRUE],
    [userId |-> 5, date |-> <<2026, 1, 1>>, time |-> <<18, 0>>, isManual |-> TRUE],
    [userId |-> 6, date |-> <<2026, 1, 1>>, time |-> <<9, 0>>,  isManual |-> TRUE] }

TxDeleteRequests ==
  { [userId |-> 5, punchTime |-> parseTimestampIST(2026, 1, 1, 9, 0, 0)],
    [userId |-> 5, punchTime |-> InvalidDate] }

\* Uploads between the transactions: a punch of 2026-01-02, which creates
\* the employee and the records of January, and the two punches of
\* 2026-01-01.
TxUploadFiles ==
  { <<StoreLine(2026, 1, 2, 10, 0, 1)>>,
    <<StoreLine(2026, 1, 1, 9, 0, 1), StoreLine(2026, 1, 1, 18, 0, 1)>> }

Other(c) == 3 - c

\* The transaction is open: begun, neither committed nor rolled back.
Open(t) == t.phase \notin {"idle", "committed"}

\* The punch rows (by punch_time) an open transaction holds a lock on: those
\* it inserted, removed or updated.
PunchLocks(t) ==
  IF Open(t) THEN {p.punch_time : p \in t.ins} \cup t.del \cup t.written ELSE {}

\* The open transaction has written the daily_attendance row of the date.
DailyLock(t, date) == t.phase = "saved" /\ t.date = date

\* The label the transaction computed for the row at punch_time.
LabelIn(t, punchTime) == CHOOSE q \in t.day : q.punch_time = punchTime

\* UPDATE punches SET punch_type, is_paired WHERE id = ...
Relabel(p, t) ==
  IF p.punch_time \in t.written
  THEN [p EXCEPT !.punch_type = LabelIn(t, p.punch_time).punch_type,
                 !.is_paired  = LabelIn(t, p.punch_time).is_paired]
  ELSE p

\* The punches table with the writes of the transaction: what its own
\* statements see, and what its commit publishes.
ApplyWrites(t, rows) ==
  {Relabel(p, t) : p \in {q \in rows : q.punch_time \notin t.del} \cup t.ins}

\* The transaction throws: it is rolled back.
TxFails(c, op) ==
  /\ txs' = [txs EXCEPT ![c] = TxNone]
  /\ lastRequest' = Request(op, FALSE, <<>>, 0, 0)
  /\ UNCHANGED <<tz, settings, records, pc, summary, parserVars,
                 employees, punchTable, dailyTable>>

TxContinues(c, t) ==
  /\ txs' = [txs EXCEPT ![c] = t]
  /\ UNCHANGED <<tz, settings, records, pc, summary, parserVars,
                 employees, punchTable, dailyTable, lastRequest>>

\* addPunch up to manager.save(Punch, punch): the INSERT waits for a
\* transaction that holds the key and fails on a committed row of the same
\* (employee_id, punch_time).
TxInsertPunch(c, r, punchTime) ==
  IF r.userId \notin employees \/ punchTime = InvalidDate
  THEN TxFails(c, "addPunch")
  ELSE /\ punchTime \notin PunchLocks(txs[Other(c)])
       /\ IF \E p \in punchTable : p.punch_time = punchTime
          THEN TxFails(c, "addPunch")
          ELSE TxContinues(c, [TxNone EXCEPT !.phase = "changed",
                                             !.op    = "addPunch",
                                             !.date  = r.date,
                                             !.ins   = {AddedRow(punchTime, r.isManual)}])

TxAddPunch(c, r) ==
  /\ ~Open(txs[c])
  /\ TxInsertPunch(c, r, AddPunchTime(r.date, r.time))

\* deletePunch up to manager.remove(Punch, punch): the DELETE waits for a
\* transaction that holds the row.
TxDeletePunch(c, r) ==
  /\ ~Open(txs[c])
  /\ IF \/ r.userId \notin employees
        \/ r.punchTime = InvalidDate
        \/ ~\E p \in punchTable : p.punch_time = r.punchTime
     THEN TxFails(c, "deletePunch")
     ELSE /\ r.punchTime \notin PunchLocks(txs[Other(c)])
          /\ TxContinues(c, [TxNone EXCEPT !.phase = "changed",
                                            !.op    = "deletePunch",
                                            !.date  = ISODate(r.punchTime),
                                            !.del   = {r.punchTime}])

\* recalculateDay, manager.find(Punch, ...) and the computation in memory:
\* the labels of the day's punches and the values of the day.
TxFindDay(c) ==
  /\ txs[c].phase = "changed"
  /\ TxContinues(c,
       [txs[c] EXCEPT
          !.phase  = "read",
          !.day    = DayRows(recalculateDayRows(ApplyWrites(txs[c], punchTable),
                                                txs[c].date),
                             txs[c].date),
          !.values = recalculateDayValues(ApplyWrites(txs[c], punchTable),
                                          txs[c].date, tz)])

\* The rows of the day whose label differs from the stored one.
ChangedLabels(t) ==
  {p.punch_time : p \in t.day \ ApplyWrites(t, punchTable)}

\* recalculateDay, manager.save(Punch, dayPunches): the rows whose labels
\* changed are updated; the UPDATE waits for a transaction that holds one.
TxSavePunches(c) ==
  /\ txs[c].phase = "read"
  /\ ChangedLabels(txs[c]) \cap PunchLocks(txs[Other(c)]) = {}
  /\ TxContinues(c, [txs[c] EXCEPT !.phase   = "labelled",
                                   !.written = ChangedLabels(txs[c])])

\* recalculateDay, manager.findOne(DailyAttendance, ...).
TxFindDaily(c) ==
  /\ txs[c].phase = "labelled"
  /\ TxContinues(c, [txs[c] EXCEPT !.phase    = "found",
                                   !.existing = txs[c].date \in DOMAIN dailyTable])

\* recalculateDay, manager.save(DailyAttendance, ...): an UPDATE of the
\* existing row or an INSERT; both wait for a transaction that wrote the row
\* of the date, and the INSERT fails on idx_employee_date once it is there.
TxSaveDaily(c) ==
  /\ txs[c].phase = "found"
  /\ ~DailyLock(txs[Other(c)], txs[c].date)
  /\ IF ~txs[c].existing /\ txs[c].date \in DOMAIN dailyTable
     THEN TxFails(c, txs[c].op)
     ELSE TxContinues(c, [txs[c] EXCEPT !.phase = "saved"])

\* The callback returns: COMMIT.
TxCommit(c) ==
  /\ txs[c].phase = "saved"
  /\ punchTable' = ApplyWrites(txs[c], punchTable)
  /\ dailyTable' = Upsert(dailyTable, txs[c].date, txs[c].values)
  /\ txs' = [txs EXCEPT ![c] = [TxNone EXCEPT !.phase = "committed",
                                              !.op    = txs[c].op,
                                              !.date  = txs[c].date]]
  /\ lastRequest' = Request(txs[c].op, TRUE, <<>>, 0, 0)
  /\ UNCHANGED <<tz, settings, records, pc, summary, parserVars, employees>>

\* An upload while no other transaction is open.
TxUpload(buffer) ==
  /\ \A c \in Clients : ~Open(txs[c])
  /\ uploadAttendance(buffer)

NextTx ==
  \/ \E buffer \in TxUploadFiles : TxUpload(buffer)
  \/ \E c \in Clients, r \in TxAddRequests : TxAddPunch(c, r)
  \/ \E c \in Clients, r \in TxDeleteRequests : TxDeletePunch(c, r)
  \/ \E c \in Clients : TxFindDay(c)
  \/ \E c \in Clients : TxSavePunches(c)
  \/ \E c \in Clients : TxFindDaily(c)
  \/ \E c \in Clients : TxSaveDaily(c)
  \/ \E c \in Clients : TxCommit(c)

SpecTx == InitStore /\ [][NextTx]_vars

\* C19: when two requests that change the punches of the same employee and
\* day run as concurrent transactions and both commit, the daily_attendance
\* record of the day and the punch_type/is_paired labels equal those obtained
\* by recomputing the day from the final stored punch set.
C19_ConcurrentRecompute ==
  (/\ \A c \in Clients : txs[c].phase = "committed"
   /\ txs[1].date = txs[2].date) =>
    /\ txs[1].date \in DOMAIN dailyTable
    /\ dailyTable[txs[1].date] = recalculateDayValues(punchTable, txs[1].date, tz)
    /\ punchTable = recalculateDayRows(punchTable, txs[1].date)

----------------------------------------------------------------------------
(* The reconstruction of the timestamp in the two line parsers              *)

\* Second tokens of a line: date and time in one token, a lone date, a lone
\* time, digits, a word, two words.
SecondTokens ==
  { DateTimeTok(2025, 12, 31, 9, 0, 0), DateTok(2025, 12, 31), TimeTok(9, 0, 0),
    IntTok(20251231), WordTok, SpacedTok }

\* Tokens after the second one.
LaterTokens == { TimeTok(19, 30, 0), IntTok(1), WordTok, DateTok(2026, 1, 1) }

\* Lines of the employee that reach the reconstruction in both parsers: a
\* numeric id and at least one more token.
SelectLines ==
  { <<IntTok(userId), t>> \o rest :
      t \in SecondTokens,
      rest \in UNION { [1..n -> LaterTokens] : n \in 0..MaxLines } }

InitSelect ==
  /\ EngineIdle
  /\ file \in { <<line>> : line \in SelectLines }
  /\ pos = 0
  /\ rawRecords = <<>>
  /\ userFile = NoFile
  /\ userMapping = NoMapping
  /\ outcome = "start"
  /\ selection = NoSelection
  /\ StoreIdle

\* The line goes through 'Parse timestamp' of DatFileParser.parseLine and of
\* V2AttendanceService.parseAttendanceLine.
ReconstructTimestamp ==
  /\ selection = NoSelection
  /\ pos < Len(file)
  /\ selection' = [parseLine           |-> SelectTimestamp(file[pos + 1]),
                   parseAttendanceLine |-> AttendanceTimestamp(file[pos + 1])]
  /\ UNCHANGED <<tz, settings, records, pc, summary, file, pos, rawRecords,
                 userFile, userMapping, outcome, storeVars>>

NextSelect == ReconstructTimestamp

SpecSelect == InitSelect /\ [][NextSelect]_vars

\* The timestamp string and the index of the first optional token by the
\* rule of the format: token[1] alone when it holds a ':', else token[1] and
\* token[2] joined by one space.
ByColonRule(line) ==
  IF Includes(line[2], ":")
  THEN [timestampStr |-> <<line[2]>>, nextIndex |-> 2]
  ELSE [timestampStr |-> <<line[2], PartAt(line, 2)>>, nextIndex |-> 3]

\* C21: the parser uses token[1] alone if it contains ':' and otherwise, in
\* every case, token[1] and token[2] joined by a single space; parseLine and
\* parseAttendanceLine choose the same timestamp string and the same index
\* of the first optional token for every line.
C21_SameTimestamp ==
  selection # NoSelection =>
    /\ selection.parseLine = ByColonRule(file[1])
    /\ selection.parseAttendanceLine = ByColonRule(file[1])
    /\ selection.parseLine = selection.parseAttendanceLine

----------------------------------------------------------------------------
(* First in and last out                                                    *)

\* The instants of the input punches whose IST civil date is date.
TimesOn(date) ==
  {records[i].timestamp : i \in {j \in 1..Len(records) : formatDate(records[j].timestamp) = date}}

\* The rows the store holds for punches at the instants.
RowsAt(times) == {AddedRow(t, FALSE) : t \in times}

\* What the engine reports for a day with n punches at the instants times.
EngineFirstLast(d, n, times) ==
  /\ d.firstIn = formatTime(SetMin(times))
  /\ d.lastOut = IF n > 1 THEN formatTime(SetMax(times)) ELSE Null
  /\ n = 1 =>
       /\ d.status = "INCOMPLETE"
       /\ d.totalHours = 0 /\ d.totalMinutes = 0
       /\ Len(d.punches) = 1
       /\ d.punches[1].isPaired = FALSE

\* What the store derives for a day whose rows are at the instants times,
\* the times of day being those of the process-local zone.
StoreFirstLast(v, rows, times) ==
  /\ v.first_in = LocalTime(SetMin(times), tz)
  /\ v.last_out = IF Cardinality(times) > 1 THEN LocalTime(SetMax(times), tz) ELSE Null
  /\ Cardinality(times) = 1 =>
       /\ v.status = "INCOMPLETE"
       /\ v.total_minutes = 0
       /\ \A p \in Labelled(OrderByPunchTime(rows)) : p.is_paired = FALSE

\* C23: for every day with n >= 1 punches, firstIn is the time of the
\* earliest punch and lastOut is the time of the latest punch when n > 1 and
\* null when n = 1; a single-punch day is INCOMPLETE with lastOut = null,
\* zero duration and one punch with isPaired = false.  The store's
\* derivation is held to the same on the rows at those instants.
C23_FirstInLastOut ==
  Done =>
    \A i \in 1..Len(Daily) :
      PunchCountOn(Daily[i].date) >= 1 =>
        /\ EngineFirstLast(Daily[i], PunchCountOn(Daily[i].date), TimesOn(Daily[i].date))
        /\ StoreFirstLast(DayValues(Daily[i].date,
                                    OrderByPunchTime(RowsAt(TimesOn(Daily[i].date))), tz),
                          RowsAt(TimesOn(Daily[i].date)), TimesOn(Daily[i].date))

\* The report holds a day with one punch and a day with three.
C23_Witness ==
  /\ Done
  /\ \E i, j \in 1..Len(Daily) :
       /\ PunchCountOn(Daily[i].date) = 1 /\ Daily[i].lastOut = Null
       /\ PunchCountOn(Daily[j].date) = 3 /\ Daily[j].lastOut # Null

----------------------------------------------------------------------------
(* Recomputation of the store                                               *)

\* C24: once a day has been marked COMP, later recomputation never changes
\* its status away from COMP: no uploadAttendance covering the month and no
\* addPunch or deletePunch recalculation sets the record to ABSENT, PRESENT
\* or INCOMPLETE.
C24_CompTerminal ==
  [][\A d \in DOMAIN dailyTable :
       dailyTable[d].status = "COMP" =>
         d \in DOMAIN dailyTable' /\ dailyTable'[d].status = "COMP"]_vars

\* The days of the calendar month of a date.
MonthOf(date) ==
  { <<date[1], date[2], d>> : d \in 1..DaysInMonth(date[1], date[2]) }

\* Stored punches whose instant falls on the IST civil date.
PunchesOn(rows, date) == {p \in rows : formatDate(p.punch_time) = date}

\* C25: after uploadAttendance commits, every day of every calendar month
\* that contains the IST civil date of a parsed line of the file has a
\* daily_attendance record, and the record of a day without punches says
\* ABSENT.
C25_MonthSpanCovered ==
  [][(lastRequest'.op = "uploadAttendance" /\ lastRequest'.ok) =>
       \A i \in 1..Len(lastRequest'.arg) :
         (/\ lastRequest'.arg[i] # <<>>
          /\ parseAttendanceLine(lastRequest'.arg[i]) # Null) =>
           \A d \in MonthOf(formatDate(parseAttendanceLine(lastRequest'.arg[i]).punch_time)) :
             /\ d \in DOMAIN dailyTable'
             /\ PunchesOn(punchTable', d) = {} => dailyTable'[d].status = "ABSENT"]_vars

\* The store under uploads and punch mutations only.
NextPunches ==
  \/ \E buffer \in UploadFiles : uploadAttendance(buffer)
  \/ \E r \in AddRequests : addPunch(r)
  \/ \E r \in DeleteRequests : deletePunch(r)

SpecPunches == InitStore /\ [][NextPunches]_vars

\* C27: after any committed sequence of uploadAttendance, addPunch and
\* deletePunch, every IST civil date with a stored punch (at any time of
\* day) has a daily_attendance record whose punch_count is the number of
\* stored punches of the date and whose status is PRESENT for an even and
\* INCOMPLETE for an odd count, and the punches of the date are labelled
\* IN, OUT, IN, ... in time order.
C27_StoreConsistent ==
  \A d \in {formatDate(p.punch_time) : p \in punchTable} :
    /\ d \in DOMAIN dailyTable
    /\ dailyTable[d].punch_count = Cardinality(PunchesOn(punchTable, d))
    /\ dailyTable[d].status =
         IF Cardinality(PunchesOn(punchTable, d)) % 2 = 0 THEN "PRESENT" ELSE "INCOMPLETE"
    /\ \A p \in PunchesOn(punchTable, d) :
         p.punch_type =
           IF Cardinality({q \in PunchesOn(punchTable, d) :
                             q.punch_time < p.punch_time}) % 2 = 0
           THEN "IN" ELSE "OUT"

\* C30: a failed mutation leaves the store unchanged: when addPunch or
\* deletePunch fails, no punch row is inserted, removed or relabelled, no
\* daily_attendance record is created or modified and no employee is added.
C30_FailedMutationFrame ==
  [][(lastRequest'.op \in {"addPunch", "deletePunch"} /\ ~lastRequest'.ok) =>
       /\ punchTable' = punchTable
       /\ dailyTable' = dailyTable
       /\ employees' = employees]_vars

\* addPunch has just failed although the employee is known: the store holds
\* an uploaded punch at 09:00 of 2026-01-01, the instant of an add request,
\* and the record of the day.
C30_Witness ==
  /\ lastRequest.op = "addPunch"
  /\ ~lastRequest.ok
  /\ userId \in employees
  /\ \E p \in punchTable :
       /\ p.punch_time = parseTimestampIST(2026, 1, 1, 9, 0, 0)
       /\ ~p.is_edited
  /\ <<2026, 1, 1>> \in DOMAIN dailyTable

----------------------------------------------------------------------------
(* The report request: getV2Report -> GET /v2/attendance/report            *)

\* A field the caller left out (undefined).
Undefined == <<>>

\* Thresholds and times a caller may put into the settings of getV2Report;
\* an optional number is <<>> or <<n>>.
ReportThresholds == {Undefined, <<0>>, <<15>>, <<30>>}

ReportTimes == {Undefined, <<9, 30>>, <<10, 0>>}

ReportMonths == {0, 11}

ReportSettings ==
  [workStartTime : ReportTimes, workEndTime : ReportTimes,
   lateThreshold : ReportThresholds, earlyOutThreshold : ReportThresholds]

\* if (settings?.field): undefined and '' are falsy, and so is the number 0.
Truthy(value) == value # Undefined

TruthyNumber(value) == value # Undefined /\ value[1] # 0

\* Number.prototype.toString of a non-negative integer: its decimal digits.
RECURSIVE NumberToString(_)
NumberToString(n) ==
  IF n < 10 THEN <<n>> ELSE Append(NumberToString(n \div 10), n % 10)

\* parseInt(str, 10) of a string of decimal digits.
RECURSIVE ParseInt10(_)
ParseInt10(str) ==
  IF Len(str) = 1 THEN str[1]
  ELSE 10 * ParseInt10(SubSeq(str, 1, Len(str) - 1)) + str[Len(str)]

\* The query string getV2Report builds: month and year always, a setting
\* only when it is truthy.
QueryOf(month, year, s) ==
  [month             |-> NumberToString(month),
   year              |-> NumberToString(year),
   workStartTime     |-> IF Truthy(s.workStartTime) THEN s.workStartTime ELSE Undefined,
   workEndTime       |-> IF Truthy(s.workEndTime) THEN s.workEndTime ELSE Undefined,
   lateThreshold     |-> IF TruthyNumber(s.lateThreshold)
                         THEN NumberToString(s.lateThreshold[1]) ELSE Undefined,
   earlyOutThreshold |-> IF TruthyNumber(s.earlyOutThreshold)
                         THEN NumberToString(s.earlyOutThreshold[1]) ELSE Undefined]

\* @Query(name) param = default: the default stands in for undefined.
QueryParam(value, default) == IF value = Undefined THEN default ELSE value

\* The settings the controller hands to getAttendanceReport, which returns
\* them in the report.
getReport(query) ==
  [workStartTime            |-> QueryParam(query.workStartTime, <<9, 30>>),
   workEndTime              |-> QueryParam(query.workEndTime, <<18, 30>>),
   lateThresholdMinutes     |-> ParseInt10(QueryParam(query.lateThreshold, <<1, 5>>)),
   earlyOutThresholdMinutes |-> ParseInt10(QueryParam(query.earlyOutThreshold, <<1, 5>>))]

\* getV2Report(month, year, settings): the report comes back with the
\* settings that were applied.
getV2Report(month, year, s) ==
  /\ settings' = getReport(QueryOf(month, year, s))
  /\ lastRequest' = Request("getV2Report", TRUE, s,
                            ParseInt10(QueryOf(month, year, s).month),
                            ParseInt10(QueryOf(month, year, s).year))
  /\ UNCHANGED <<tz, records, pc, summary, parserVars, employees, punchTable,
                 dailyTable, txs>>

NextReport ==
  \E month \in ReportMonths, s \in ReportSettings : getV2Report(month, 2026, s)

SpecReport == InitStore /\ [][NextReport]_vars

\* The value applied for a supplied value, and the default otherwise.
Expected(supplied, default) == IF supplied = Undefined THEN default ELSE supplied

ExpectedNumber(supplied, default) ==
  IF supplied = Undefined THEN default ELSE supplied[1]

\* C26: every setting the caller supplies for a report request is the one
\* applied and a default is used only for a field the caller did not
\* supply; a supplied grace threshold of 0 minutes reaches
\* getAttendanceReport as 0 and is not replaced by the default 15.
C26_SuppliedSettingsApplied ==
  lastRequest.op = "getV2Report" =>
    /\ settings.workStartTime =
         Expected(lastRequest.arg.workStartTime, DEFAULT_SETTINGS.workStartTime)
    /\ settings.workEndTime =
         Expected(lastRequest.arg.workEndTime, DEFAULT_SETTINGS.workEndTime)
    /\ settings.lateThresholdMinutes =
         ExpectedNumber(lastRequest.arg.lateThreshold, DEFAULT_SETTINGS.lateThresholdMinutes)
    /\ settings.earlyOutThresholdMinutes =
         ExpectedNumber(lastRequest.arg.earlyOutThreshold,
                        DEFAULT_SETTINGS.earlyOutThresholdMinutes)

----------------------------------------------------------------------------
(* The engine and the store on the same punches                             *)

\* The store's values v (upload path) and w (recalculation path) for a day
\* say what the engine's record d says.
SameDay(d, v, w) ==
  /\ v.status = d.status
  /\ v.first_in = d.firstIn
  /\ v.last_out = d.lastOut
  /\ v.total_minutes = d.totalHours * 60 + d.totalMinutes
  /\ w = v

\* C28: for the same set of punches of the employee on one IST civil day,
\* computeDailyAttendanceForDay and recalculateDay produce the same status,
\* first-in time, last-out time and total minutes as the engine's
\* calculateDailyAttendance, and they agree with each other.
C28_StoreMatchesEngine ==
  Done =>
    \A i \in 1..Len(Daily) :
      (/\ PunchCountOn(Daily[i].date) >= 1
       /\ PunchCountOn(Daily[i].date) = Cardinality(TimesOn(Daily[i].date))) =>
        SameDay(Daily[i],
                computeDailyAttendanceForDay(RowsAt(TimesOn(Daily[i].date)),
                                             Daily[i].date, tz),
                recalculateDayValues(RowsAt(TimesOn(Daily[i].date)),
                                     Daily[i].date, tz))

----------------------------------------------------------------------------
(* The engine under different process zones                                 *)

\* The dates of a list of daily records with the punches assigned to each.
DatesAndPunches(daily) ==
  [i \in 1..Len(daily) |-> <<daily[i].date, daily[i].punches>>]

\* C29: the dates covered by calculateUserAttendance and the punches
\* assigned to each date do not depend on the timezone offset of the
\* process: for the same punch instants a run under any other offset
\* returns the same dates with the same punches, each a date of the months
\* spanned by the punches' IST civil dates.
C29_ZoneIndependent ==
  Done =>
    /\ \A z \in TzOffsets :
         DatesAndPunches(calculateUserAttendance(records, settings, z).dailyRecords)
           = DatesAndPunches(Daily)
    /\ \A i \in 1..Len(Daily) :
         \E k \in 1..Len(ExpectedCalendar(records)) :
           Daily[i].date = ExpectedCalendar(records)[k]

====
